---------------------------- MODULE Spec2Model ----------------------------
(***************************************************************************)
(* The lazy-sorting leaderboard store of src/backend/main.go (UserStore):  *)
(* the entity table, the rating-ordered index with its lazy re-sort, the   *)
(* name index with first-character buckets, and the page cache, under      *)
(* concurrent readers and mutators.  With it, the eager store of           *)
(* src/backend/services/leaderboard_service.go, the WebSocket client of    *)
(* src/frontend/services/websocket.js and the pagination controls of       *)
(* src/unnamed/part_000 and part_003, each under a specification of its    *)
(* own during which the other components stand still.                      *)
(*                                                                         *)
(* Strings are sequences of byte codes, so that ordering, lower-casing,    *)
(* trimming and prefix tests are computed as Go computes them.             *)
(***************************************************************************)
EXTENDS Integers, Sequences, FiniteSets, TLC

(***************************************************************************)
(* Bounds of the model.                                                    *)
(***************************************************************************)
\* generateUsers(count): the population size (20000 in init()); the
\* specifications with concurrent goroutines populate NumUsersConc users.
NumUsers == 3
NumUsersConc == 2
\* concurrent request goroutines (HTTP handlers and the update loop).
NumThreads == 2
\* updateRandomScores(count): the largest batch (1 + rand.Intn(200) in init()).
MaxBatch == 2
\* the store's sortThreshold (50 in NewUserStore), scaled to the batch sizes.
sortThreshold == 2
\* the result cap of SearchUsers (1000 in the source), scaled to the population.
searchCap == 2
\* the clock runs from 0 to MaxTime seconds.
MaxTime == 2
\* SeedUsers(count): the largest population of the eager store.
SvcSeedMax == 3
\* the iterations of the loop of the eager updateRandomScores (10 at least
\* in the source).
SvcBatch == 2
\* the update cycles that the ticker of StartScoreUpdates starts.
SvcMaxCycles == 2
\* the client's maxReconnectAttempts (10 in the constructor), scaled to the
\* sockets of the model.
maxReconnectAttempts == 2
\* the WebSocket objects that the client creates.
MaxSockets == 3
\* the messages queued or transmitted between two opens.
MaxQueue == 2
\* the callbacks registered under one message type.
MaxListeners == 2
\* the largest totalPages of the pagination control.
MaxPages == 12

(***************************************************************************)
(* Program constants.                                                      *)
(***************************************************************************)
MinRating == 100
MaxRating == 5000
defaultPage == 1
defaultLimit == 45
\* cacheTTL: 1 * time.Second; the clock counts seconds.
cacheTTL == 1
\* GetLeaderboardHandler: the default and the largest pageSize
svcDefaultPageSize == 45
svcMaxPageSize == 100
\* SearchUsersHandler: the limit of the results
svcSearchLimit == 100
\* both pagination controls: const maxVisible = 5
maxVisible == 5

Threads == 1..NumThreads

(***************************************************************************)
(* Byte strings.                                                           *)
(***************************************************************************)
\* bytes.Compare order of Go strings: a < b
RECURSIVE LexLess(_, _)
LexLess(a, b) ==
    IF b = <<>> THEN FALSE
    ELSE IF a = <<>> THEN TRUE
    ELSE IF Head(a) # Head(b) THEN Head(a) < Head(b)
    ELSE LexLess(Tail(a), Tail(b))

LexGeq(a, b) == ~LexLess(a, b)

\* strings.ToLower on ASCII
ToLower(s) == [i \in DOMAIN s |-> IF s[i] \in 65..90 THEN s[i] + 32 ELSE s[i]]

IsSpace(c) == c \in {9, 10, 11, 12, 13, 32}

RECURSIVE TrimLeft(_)
TrimLeft(s) == IF s # <<>> /\ IsSpace(Head(s)) THEN TrimLeft(Tail(s)) ELSE s

RECURSIVE TrimRight(_)
TrimRight(s) ==
    IF s # <<>> /\ IsSpace(s[Len(s)]) THEN TrimRight(SubSeq(s, 1, Len(s) - 1)) ELSE s

\* strings.TrimSpace
TrimSpace(s) == TrimRight(TrimLeft(s))

\* strings.HasPrefix
HasPrefix(s, p) == Len(s) >= Len(p) /\ SubSeq(s, 1, Len(p)) = p

\* fmt.Sprintf("%d", n) for n >= 0
RECURSIVE Decimal(_)
Decimal(n) == IF n < 10 THEN <<48 + n>> ELSE Decimal(n \div 10) \o <<48 + (n % 10)>>

Abs(a) == IF a < 0 THEN -a ELSE a

\* Go's integer division truncates toward zero; b # 0
GoDiv(a, b) ==
    IF (a < 0) = (b < 0) THEN Abs(a) \div Abs(b) ELSE -(Abs(a) \div Abs(b))

\* the elements of S in the order of the strict total order Less: what
\* sort.Slice leaves when the comparator never ties.
SortBy(S, Less(_, _)) ==
    [i \in 1..Cardinality(S) |->
        CHOOSE x \in S : Cardinality({y \in S : Less(y, x)}) = i - 1]

Range(f) == {f[i] : i \in DOMAIN f}

(***************************************************************************)
(* The population that generateUsers draws.                                *)
(***************************************************************************)
\* "Amy", "Amit", "Zoe": three of the firstNames; "Das": one of the lastNames
firstNames == <<<<65, 109, 121>>, <<65, 109, 105, 116>>, <<90, 111, 101>>>>
lastNames == <<<<68, 97, 115>>>>

\* fmt.Sprintf("%s_%s%d", ToLower(firstName), ToLower(lastName), i+1); u = i+1
MakeUsername(first, last, u) == ToLower(first) \o <<95>> \o ToLower(last) \o Decimal(u)

\* fmt.Sprintf("user_%d", i+1)
UserID(u) == <<117, 115, 101, 114, 95>> \o Decimal(u)

\* the ratings the model's random draws stay in: the top of [100, 5000], so
\* that the upper clamp is taken and ties are frequent.
ModelRatings == {MaxRating - 100, MaxRating}
\* the changes the model draws out of rand.Intn(401) - 200
Changes == {-100, 100}

VARIABLES
    usersByID,        \* [1..count -> User record]: the entities (the *User targets)
    userNames,        \* [1..count -> the name fields of the User]
    sortedUsers,      \* sequence of user numbers, the rating index
    sortedByName,     \* sequence of user numbers, the name index
    firstCharBuckets, \* first byte -> sequence of user numbers
    needsSorting, updateCount, updatedUsers,
    cache,            \* cache key -> cacheEntry
    mu,               \* the store's RWMutex: [writer, readers]
    cacheMutex,       \* the cache's RWMutex: [writer, readers]
    now,              \* the wall clock, in seconds
    th,               \* per goroutine: the call it runs and its locals
    lastCommitSorted, \* history: the last effective batch reached the threshold
    effective,        \* history: the ratings changed since the last rebuild
    rebuiltRating,    \* history: every user's rating at the last rebuild
    svc,              \* the LeaderboardService of services/leaderboard_service.go
    svcTh,            \* per goroutine: the call it runs on the service
    ws,               \* the WebSocketService of frontend/services/websocket.js
    wsEnv,            \* its sockets, timers and unsubscribe functions; history
    pg                \* the pagination control: its props and what it rendered

\* the state of the UserStore and of its goroutines
lazyVars == <<usersByID, userNames, sortedUsers, sortedByName, firstCharBuckets,
              needsSorting, updateCount, updatedUsers, cache, mu, cacheMutex, now, th,
              lastCommitSorted, effective, rebuiltRating>>

\* the state of the LeaderboardService and of its goroutines
svcVars == <<svc, svcTh>>

\* the state of the client
clientVars == <<ws, wsEnv, pg>>

vars == <<lazyVars, svcVars, clientVars>>

nameVars == <<userNames, sortedByName, firstCharBuckets>>
storeVars == <<usersByID, sortedUsers, needsSorting, updateCount, updatedUsers>>
histVars == <<lastCommitSorted, effective, rebuiltRating>>

Users == DOMAIN usersByID

\* the ratings of the users
RatingsOf(us) == [u \in DOMAIN us |-> us[u].Rating]

(***************************************************************************)
(* sortUsersLocked                                                         *)
(***************************************************************************)
\* the comparator of sort.Slice over sortedUsers
RatingBefore(us, a, b) ==
    IF us[a].Rating = us[b].Rating
    THEN LexLess(UserID(a), UserID(b))
    ELSE us[a].Rating > us[b].Rating

\* a stable sort by rating alone: users of equal rating keep the order they
\* had in the index before
SortByRatingStable(us, seq) ==
    LET pos(u) == CHOOSE i \in DOMAIN seq : seq[i] = u
    IN SortBy(Range(seq), LAMBDA a, b : \/ us[a].Rating > us[b].Rating
                                        \/ /\ us[a].Rating = us[b].Rating
                                           /\ pos(a) < pos(b))

SortByRating(us, seq) == SortBy(Range(seq), LAMBDA a, b : RatingBefore(us, a, b))

\* the inner loop: the end j of the run of equal ratings that starts at i
RECURSIVE RunEnd(_, _, _, _)
RunEnd(us, seq, j, currentRating) ==
    IF j <= Len(seq) /\ us[seq[j]].Rating = currentRating
    THEN RunEnd(us, seq, j + 1, currentRating)
    ELSE j

\* currentRank += (j - i)
\* a dense ranking: the rank after a run is one more, whatever the run's length
NextRankDense(currentRank, i, j) == currentRank + 1

NextRank(currentRank, i, j) == currentRank + (j - i)

\* the rank loop: every member of a run gets currentRank, which then
\* advances by the length of the run.
RECURSIVE AssignRanks(_, _, _, _)
AssignRanks(us, seq, i, currentRank) ==
    IF i > Len(seq) THEN us
    ELSE LET j == RunEnd(us, seq, i, us[seq[i]].Rating)
             run == {seq[k] : k \in i..(j - 1)}
             us2 == [u \in DOMAIN us |->
                        IF u \in run THEN [us[u] EXCEPT !.Rank = currentRank]
                        ELSE us[u]]
         IN AssignRanks(us2, seq, j, NextRank(currentRank, i, j))

\* a rebuild that leaves every user marked as updated
SortUsersLockedKeepsUpdated(us, seq) ==
    LET sorted == SortByRating(us, seq)
    IN [usersByID |-> AssignRanks(us, sorted, 1, 1),
        sortedUsers |-> sorted,
        needsSorting |-> FALSE,
        updatedUsers |-> Range(seq),
        updateCount |-> 0]

\* a rebuild that leaves the index marked as unsorted
SortUsersLockedStaysDirty(us, seq) ==
    LET sorted == SortByRating(us, seq)
    IN [usersByID |-> AssignRanks(us, sorted, 1, 1),
        sortedUsers |-> sorted,
        needsSorting |-> TRUE,
        updatedUsers |-> {},
        updateCount |-> 0]

\* the store part of sortUsersLocked, as a record of the new field values;
\* clearCache, which it calls last, takes the cache lock and is a step of
\* its own in every caller.
SortUsersLocked(us, seq) ==
    LET sorted == SortByRating(us, seq)
    IN [usersByID |-> AssignRanks(us, sorted, 1, 1),
        sortedUsers |-> sorted,
        needsSorting |-> FALSE,
        updatedUsers |-> {},
        updateCount |-> 0]

(***************************************************************************)
(* clearCache and the two RWMutexes                                        *)
(***************************************************************************)
\* a Lock that is granted while readers hold the mutex
CanLockDespiteReaders(m) == m.writer = 0

\* an RLock that is granted while a writer holds the mutex
CanRLockDespiteWriter(m) == TRUE

\* sync.RWMutex: Lock needs no holder at all, RLock needs no writer.
CanLock(m) == m.writer = 0 /\ m.readers = {}
CanRLock(m) == m.writer = 0

Locked(m, t) == [m EXCEPT !.writer = t]
Unlocked(m) == [m EXCEPT !.writer = 0]
RLocked(m, t) == [m EXCEPT !.readers = @ \cup {t}]
RUnlocked(m, t) == [m EXCEPT !.readers = @ \ {t}]

\* s.cache = make(map[string]cacheEntry)
EmptyCache == [k \in {} |-> 0]

(***************************************************************************)
(* The eager store of src/backend/services/leaderboard_service.go          *)
(* (LeaderboardService): one slice of users, re-sorted and re-ranked at    *)
(* the end of every update cycle, and a prefix map built when the users    *)
(* are seeded.                                                             *)
(***************************************************************************)
\* "mia", "leo7", "leo", "leo_das": the usernames that SeedUsers draws, in
\* the order of the draws; they are distinct, as usedUsernames makes them.
svcNames == <<<<109, 105, 97>>, <<108, 101, 111, 55>>, <<108, 101, 111>>,
              <<108, 101, 111, 95, 100, 97, 115>>>>

\* the ratings the model's seed draws out of rand.Intn(4900) + 100
SvcRatings == {MaxRating - 160, MaxRating - 80}
\* the changes the model draws out of rand.Intn(200) - 80
SvcChanges == {-80, 0, 80}
\* the ratings the model's draws stay in
SvcWindow == {MaxRating - 160, MaxRating - 80, MaxRating}

\* NewLeaderboardService; userMap, which no method reads, is left out
NewLeaderboardService ==
    [users |-> <<>>,
     usernameTrie |-> [key \in {} |-> <<>>],
     mu |-> [writer |-> 0, readers |-> {}],
     updateCount |-> 0,
     lastUpdated |-> 0]

\* the comparator of sort.Slice in calculateRanks
SvcBefore(a, b) ==
    IF a.Rating = b.Rating
    THEN LexLess(a.Username, b.Username)
    ELSE a.Rating > b.Rating

\* the rank loop of calculateRanks; p is the position i + 1
RECURSIVE SvcRankLoop(_, _, _)
SvcRankLoop(users, p, currentRank) ==
    IF p > Len(users) THEN users
    ELSE LET rank == IF p > 1 /\ users[p].Rating < users[p - 1].Rating
                     THEN p ELSE currentRank
         IN SvcRankLoop([users EXCEPT ![p].Rank = rank], p + 1, rank)

\* ranks recalculated over the list as it stands, the sort dropped
CalculateRanksUnsorted(users) == SvcRankLoop(users, 1, 1)

\* calculateRanks: sort, then rank
CalculateRanks(users) ==
    SvcRankLoop(SortBy(Range(users), LAMBDA a, b : SvcBefore(a, b)), 1, 1)

\* the prefixes of buildTrie's inner loop: username[:length], length from 2
SvcPrefixes(username) == {SubSeq(username, 1, n) : n \in 2..Len(username)}

SvcTrieKeys(users) ==
    UNION {{ToLower(users[p].Username)} \cup SvcPrefixes(ToLower(users[p].Username)) :
              p \in DOMAIN users}

\* what buildTrie appends under key, from position p on: a position once for
\* the full username and once for every prefix equal to key.  Positions are
\* the slice indices plus one.
RECURSIVE SvcTrieEntries(_, _, _)
SvcTrieEntries(users, key, p) ==
    IF p > Len(users) THEN <<>>
    ELSE LET username == ToLower(users[p].Username)
             full == IF key = username THEN <<p>> ELSE <<>>
             prefix == IF key \in SvcPrefixes(username) THEN <<p>> ELSE <<>>
         IN full \o prefix \o SvcTrieEntries(users, key, p + 1)

\* buildTrie
BuildTrie(users) == [key \in SvcTrieKeys(users) |-> SvcTrieEntries(users, key, 1)]

\* User{ID: "user_i", Username, Rating}, i from 0
SvcNewUser(i, rating) ==
    [ID |-> UserID(i), Username |-> svcNames[i + 1], Rating |-> rating, Rank |-> 0]

\* a goroutine that runs no call on the service
SvcIdle == [pc |-> "idle", page |-> 0, pageSize |-> 0, query |-> <<>>,
            res |-> [kind |-> "none"]]

\* the loop of updateRandomScores over the draws of idx and change
RECURSIVE SvcUpdateLoop(_, _)
SvcUpdateLoop(users, draws) ==
    IF draws = <<>> THEN users
    ELSE LET idx == Head(draws).idx
             r == users[idx].Rating + Head(draws).change
             newRating == IF r < MinRating THEN MinRating
                          ELSE IF r > MaxRating THEN MaxRating ELSE r
         IN SvcUpdateLoop([users EXCEPT ![idx].Rating = newRating], Tail(draws))

\* the draws of one cycle that keep the ratings in the model's window
SvcDraws(users) ==
    {draws \in [1..SvcBatch -> [idx : DOMAIN users, change : SvcChanges]] :
        \A p \in DOMAIN users : SvcUpdateLoop(users, draws)[p].Rating \in SvcWindow}

\* no goroutine of the service has ended the process
SvcRunning == \A t \in Threads : svcTh[t].pc # "crashed"

\* SeedUsers(count), once, on the empty service
SeedUsers(t, count) ==
    /\ svcTh[t].pc = "idle"
    /\ CanLock(svc.mu)
    /\ svc.users = <<>>
    /\ \E ratings \in [1..count -> SvcRatings] :
          LET fresh == [p \in 1..count |-> SvcNewUser(p - 1, ratings[p])]
              ranked == CalculateRanks(fresh)
          IN svc' = [svc EXCEPT !.users = ranked, !.usernameTrie = BuildTrie(ranked)]
    /\ UNCHANGED <<lazyVars, svcTh, clientVars>>

\* updateRandomScores up to its call of calculateRanks: mu.Lock(),
\* updateCount++ and the loop.  rand.Intn(0) panics on the empty list: the
\* deferred Unlock runs and the panic, in the goroutine of
\* StartScoreUpdates, ends the process.
SvcUpdateScores(t) ==
    /\ svcTh[t].pc = "idle"
    /\ CanLock(svc.mu)
    /\ svc.updateCount < SvcMaxCycles
    /\ IF svc.users = <<>>
       THEN /\ svc' = [svc EXCEPT !.updateCount = @ + 1]
            /\ svcTh' = [svcTh EXCEPT ![t].pc = "crashed"]
       ELSE /\ \E draws \in SvcDraws(svc.users) :
                  svc' = [svc EXCEPT !.mu = Locked(@, t),
                                     !.updateCount = @ + 1,
                                     !.users = SvcUpdateLoop(@, draws)]
            /\ svcTh' = [svcTh EXCEPT ![t].pc = "svc_ranks"]
    /\ UNCHANGED <<lazyVars, clientVars>>

\* the rest of updateRandomScores: calculateRanks, lastUpdated and the
\* deferred mu.Unlock()
SvcRecalculate(t) ==
    /\ svcTh[t].pc = "svc_ranks"
    /\ svc' = [svc EXCEPT !.users = CalculateRanks(@),
                          !.lastUpdated = now,
                          !.mu = Unlocked(@)]
    /\ svcTh' = [svcTh EXCEPT ![t].pc = "idle"]
    /\ UNCHANGED <<lazyVars, clientVars>>

\* the response of GetLeaderboardHandler for ?page=page0&pageSize=pageSize0;
\* s.users[start:end] panics unless 0 <= start <= end
SvcLeaderboard(users, page0, pageSize0) ==
    LET page1 == IF page0 < 1 THEN 1 ELSE page0
        pageSize == IF pageSize0 < 1 \/ pageSize0 > svcMaxPageSize
                    THEN svcDefaultPageSize ELSE pageSize0
        total == Len(users)
        totalPages == GoDiv(total + pageSize - 1, pageSize)
        page == IF page1 > totalPages THEN totalPages ELSE page1
        start == (page - 1) * pageSize
        end == IF start + pageSize > total THEN total ELSE start + pageSize
        pageUsers == IF start < total THEN SubSeq(users, start + 1, end) ELSE <<>>
    IN [kind |-> IF start < total /\ (start < 0 \/ start > end) THEN "panic" ELSE "ok",
        users |-> IF start < 0 THEN <<>> ELSE pageUsers,
        total |-> total, page |-> page, pageSize |-> pageSize,
        totalPages |-> totalPages, start |-> start, end |-> end]

\* GetLeaderboardHandler: s.mu.RLock()
SvcLbRLock(t, page, pageSize) ==
    /\ svcTh[t].pc = "idle"
    /\ CanRLock(svc.mu)
    /\ svc' = [svc EXCEPT !.mu = RLocked(@, t)]
    /\ svcTh' = [svcTh EXCEPT ![t] = [SvcIdle EXCEPT !.pc = "svc_lb", !.page = page,
                                                     !.pageSize = pageSize]]
    /\ UNCHANGED <<lazyVars, clientVars>>

\* the body of GetLeaderboardHandler and the deferred s.mu.RUnlock(), which
\* runs on a panic too
SvcLbRespond(t) ==
    /\ svcTh[t].pc = "svc_lb"
    /\ svc' = [svc EXCEPT !.mu = RUnlocked(@, t)]
    /\ svcTh' = [svcTh EXCEPT ![t].pc = "done",
                              ![t].res = SvcLeaderboard(svc.users, svcTh[t].page,
                                                        svcTh[t].pageSize)]
    /\ UNCHANGED <<lazyVars, clientVars>>

\* the first loop of SearchUsersHandler: the positions under the key, each
\* once, in the order of the map's slice
RECURSIVE SvcDedup(_, _)
SvcDedup(indices, resultIndices) ==
    IF indices = <<>> THEN resultIndices
    ELSE SvcDedup(Tail(indices),
                  IF Head(indices) \in Range(resultIndices) THEN resultIndices
                  ELSE Append(resultIndices, Head(indices)))

\* the second loop: the positions whose lower-case username has the prefix
\* and that are not seen yet, until the results reach the limit
RECURSIVE SvcScan(_, _, _, _)
SvcScan(users, query, p, resultIndices) ==
    IF p > Len(users) THEN resultIndices
    ELSE LET found == IF /\ HasPrefix(ToLower(users[p].Username), query)
                         /\ p \notin Range(resultIndices)
                      THEN Append(resultIndices, p) ELSE resultIndices
         IN IF Len(found) >= svcSearchLimit THEN found
            ELSE SvcScan(users, query, p + 1, found)

\* sort.Slice by rank: below 12 elements an insertion sort, which keeps
\* the order of equal ranks
RECURSIVE SvcSortByRank(_, _)
SvcSortByRank(users, resultIndices) ==
    IF resultIndices = <<>> THEN <<>>
    ELSE LET rest == SvcSortByRank(users, SubSeq(resultIndices, 1, Len(resultIndices) - 1))
             x == resultIndices[Len(resultIndices)]
             k == Cardinality({i \in DOMAIN rest : users[rest[i]].Rank <= users[x].Rank})
         IN SubSeq(rest, 1, k) \o <<x>> \o SubSeq(rest, k + 1, Len(rest))

\* the response of SearchUsersHandler for ?q=q
SvcSearch(users, usernameTrie, q) ==
    LET query == ToLower(TrimSpace(q))
        fromTrie == IF query \in DOMAIN usernameTrie
                    THEN SvcDedup(usernameTrie[query], <<>>) ELSE <<>>
        resultIndices == SvcSortByRank(users, SvcScan(users, query, 1, fromTrie))
    IN IF query = <<>>
       THEN [kind |-> "ok", results |-> <<>>, count |-> 0, query |-> query]
       ELSE [kind |-> "ok",
             results |-> [i \in DOMAIN resultIndices |-> users[resultIndices[i]]],
             count |-> Len(resultIndices), query |-> query]

\* SearchUsersHandler: s.mu.RLock()
SvcSearchRLock(t, q) ==
    /\ svcTh[t].pc = "idle"
    /\ CanRLock(svc.mu)
    /\ svc' = [svc EXCEPT !.mu = RLocked(@, t)]
    /\ svcTh' = [svcTh EXCEPT ![t] = [SvcIdle EXCEPT !.pc = "svc_search", !.query = q]]
    /\ UNCHANGED <<lazyVars, clientVars>>

\* the body of SearchUsersHandler and the deferred s.mu.RUnlock()
SvcSearchRespond(t) ==
    /\ svcTh[t].pc = "svc_search"
    /\ svc' = [svc EXCEPT !.mu = RUnlocked(@, t)]
    /\ svcTh' = [svcTh EXCEPT ![t].pc = "done",
                              ![t].res = SvcSearch(svc.users, svc.usernameTrie,
                                                   svcTh[t].query)]
    /\ UNCHANGED <<lazyVars, clientVars>>

\* the handler has returned; the goroutine serves the next request
SvcReturn(t) ==
    /\ svcTh[t].pc = "done"
    /\ svcTh' = [svcTh EXCEPT ![t] = SvcIdle]
    /\ UNCHANGED <<lazyVars, svc, clientVars>>

(***************************************************************************)
(* The WebSocket client of src/frontend/services/websocket.js              *)
(* (WebSocketService).  JavaScript runs every handler to its end before    *)
(* the next one starts, so a handler is one step; the loop of              *)
(* processMessageQueue, which need not end, is a step per iteration during *)
(* which no other handler runs.  ws holds the fields of the service; wsEnv *)
(* holds the WebSocket objects the service created (their readyState), the *)
(* reconnect timers that are scheduled, the unsubscribe functions that     *)
(* on() returned, and history: what was transmitted, notified and invoked. *)
(***************************************************************************)
\* the message types of the constructor's listeners that the model uses
WsTypes == {"score_updates", "connection_change"}
\* the types that on() is called with: the two above and one more
WsOnTypes == WsTypes \cup {"custom"}
\* the functions passed to on()
WsCallbacks == {1, 2}
\* the messages passed to send(); the data of "cyc" has a circular
\* reference, for which JSON.stringify throws
WsMessages == {"a", "b", "cyc"}
\* the close codes of the model: a normal closure and an abnormal one
WsCloseCodes == {1000, 1006}

\* constructor()
NewWebSocketService ==
    [socket |-> 0,
     reconnectAttempts |-> 0,
     listeners |-> [type \in WsTypes |-> <<>>],
     isConnected |-> FALSE,
     messageQueue |-> <<>>]

\* no socket yet and no reconnect timer; auto is the timer of the
\* auto-connect, which the module sets when it is loaded
WsEnvInit ==
    [sockets |-> <<>>, timers |-> 0, auto |-> TRUE, unsubs |-> {}, pc |-> "idle",
     sent |-> <<>>, batch |-> <<>>, spin |-> 0, ret |-> "none",
     notice |-> "none", invoked |-> <<>>, disconnected |-> FALSE, code |-> 0]

\* notifyListeners(type, data): every callback of the type, in order
NotifyListeners(w, e, type, data) ==
    IF type \notin DOMAIN w.listeners THEN e
    ELSE [e EXCEPT !.notice = data, !.invoked = w.listeners[type]]

\* this.socket && this.socket.readyState === WebSocket.OPEN
WsIsOpen(w, e) == w.socket # 0 /\ e.sockets[w.socket] = "OPEN"

\* connect(): new WebSocket(wsUrl) unless the current socket is open; the
\* constructor does not throw for the constant URL
Connect(w, e) ==
    IF WsIsOpen(w, e) THEN [w |-> w, e |-> e]
    ELSE [w |-> [w EXCEPT !.socket = Len(e.sockets) + 1],
          e |-> [e EXCEPT !.sockets = Append(@, "CONNECTING")]]

\* an attemptReconnect that counts and schedules whatever the count is
AttemptReconnectUnbounded(w, e) ==
    [w |-> [w EXCEPT !.reconnectAttempts = @ + 1],
     e |-> [e EXCEPT !.timers = @ + 1]]

\* attemptReconnect()
AttemptReconnect(w, e) ==
    IF w.reconnectAttempts >= maxReconnectAttempts
    THEN [w |-> w, e |-> NotifyListeners(w, e, "connection_change", "max")]
    ELSE [w |-> [w EXCEPT !.reconnectAttempts = @ + 1],
          e |-> [e EXCEPT !.timers = @ + 1]]

\* send(type, data)
Send(w, e, m) ==
    IF ~w.isConnected \/ ~WsIsOpen(w, e) \/ m = "cyc"
    THEN [w |-> [w EXCEPT !.messageQueue = Append(@, m)],
          e |-> [e EXCEPT !.ret = FALSE]]
    ELSE [w |-> w, e |-> [e EXCEPT !.sent = Append(@, m), !.ret = TRUE]]

\* a call of the service's connect() from the application
WsConnect ==
    /\ wsEnv.pc = "idle"
    /\ Len(wsEnv.sockets) < MaxSockets
    /\ LET r == Connect(ws, wsEnv)
       IN /\ ws' = r.w
          /\ wsEnv' = [r.e EXCEPT !.disconnected = FALSE]
    /\ UNCHANGED <<lazyVars, svcVars, pg>>

\* the timer of the auto-connect fires: the module calls connect()
WsAutoConnect ==
    /\ wsEnv.pc = "idle"
    /\ wsEnv.auto
    /\ Len(wsEnv.sockets) < MaxSockets
    /\ LET r == Connect(ws, [wsEnv EXCEPT !.auto = FALSE])
       IN /\ ws' = r.w
          /\ wsEnv' = [r.e EXCEPT !.disconnected = FALSE]
    /\ UNCHANGED <<lazyVars, svcVars, pg>>

\* a timer of attemptReconnect fires: connect()
WsTimer ==
    /\ wsEnv.pc = "idle"
    /\ wsEnv.timers > 0
    /\ Len(wsEnv.sockets) < MaxSockets
    /\ LET r == Connect(ws, [wsEnv EXCEPT !.timers = @ - 1])
       IN ws' = r.w /\ wsEnv' = r.e
    /\ UNCHANGED <<lazyVars, svcVars, pg>>

\* onopen of socket s, up to its call of processMessageQueue
WsOnOpen(s) ==
    /\ wsEnv.pc = "idle"
    /\ wsEnv.sockets[s] = "CONNECTING"
    /\ LET w == [ws EXCEPT !.isConnected = TRUE, !.reconnectAttempts = 0]
           e == [wsEnv EXCEPT !.sockets[s] = "OPEN"]
       IN /\ ws' = w
          /\ wsEnv' = [NotifyListeners(w, e, "connection_change", "connected")
                          EXCEPT !.pc = "pmq", !.batch = w.messageQueue,
                                 !.sent = <<>>, !.spin = 0]
    /\ UNCHANGED <<lazyVars, svcVars, pg>>

\* processMessageQueue: one test of the loop's condition and, when it
\* holds, one iteration: shift() and send()
ProcessMessageQueue ==
    /\ wsEnv.pc = "pmq"
    /\ IF Len(ws.messageQueue) > 0 /\ ws.isConnected
       THEN LET r == Send([ws EXCEPT !.messageQueue = Tail(@)],
                          [wsEnv EXCEPT !.spin = 1 - @], Head(ws.messageQueue))
            IN ws' = r.w /\ wsEnv' = r.e
       ELSE /\ ws' = ws
            /\ wsEnv' = [wsEnv EXCEPT !.pc = "idle", !.batch = <<>>, !.spin = 0]
    /\ UNCHANGED <<lazyVars, svcVars, pg>>

\* onerror of socket s
WsOnError(s) ==
    /\ wsEnv.pc = "idle"
    /\ wsEnv.sockets[s] \in {"CONNECTING", "OPEN"}
    /\ LET w == [ws EXCEPT !.isConnected = FALSE]
       IN /\ ws' = w
          /\ wsEnv' = NotifyListeners(w, wsEnv, "connection_change", "error")
    /\ UNCHANGED <<lazyVars, svcVars, pg>>

\* onclose of socket s with the close code
WsOnClose(s, code) ==
    /\ wsEnv.pc = "idle"
    /\ wsEnv.sockets[s] # "CLOSED"
    /\ LET w == [ws EXCEPT !.isConnected = FALSE]
           e == NotifyListeners(w, [wsEnv EXCEPT !.sockets[s] = "CLOSED", !.code = code],
                                "connection_change", "disconnected")
           r == IF code # 1000 THEN AttemptReconnect(w, e) ELSE [w |-> w, e |-> e]
       IN ws' = r.w /\ wsEnv' = r.e
    /\ UNCHANGED <<lazyVars, svcVars, pg>>

\* disconnect()
WsDisconnect ==
    /\ wsEnv.pc = "idle"
    /\ LET closed == IF ws.socket # 0 /\ wsEnv.sockets[ws.socket] \in {"CONNECTING", "OPEN"}
                     THEN [wsEnv EXCEPT !.sockets[ws.socket] = "CLOSING"]
                     ELSE wsEnv
           w == [ws EXCEPT !.socket = 0, !.isConnected = FALSE,
                           !.reconnectAttempts = 0, !.messageQueue = <<>>]
       IN /\ ws' = w
          /\ wsEnv' = [NotifyListeners(w, closed, "connection_change", "disconnected")
                          EXCEPT !.disconnected = TRUE]
    /\ UNCHANGED <<lazyVars, svcVars, pg>>

\* a call of send() from the application
WsSend(m) ==
    /\ wsEnv.pc = "idle"
    /\ Len(ws.messageQueue) + Len(wsEnv.sent) < MaxQueue
    /\ LET r == Send(ws, wsEnv, m)
       IN ws' = r.w /\ wsEnv' = r.e
    /\ UNCHANGED <<lazyVars, svcVars, pg>>

\* onmessage of socket s with a message of the type: handleMessage
WsOnMessage(s, type) ==
    /\ wsEnv.pc = "idle"
    /\ wsEnv.sockets[s] = "OPEN"
    /\ ws' = ws
    /\ wsEnv' = NotifyListeners(ws, [wsEnv EXCEPT !.invoked = <<>>], type, "payload")
    /\ UNCHANGED <<lazyVars, svcVars, pg>>

\* on(type, callback); the unsubscribe function it returns is kept
WsOn(type, callback) ==
    /\ wsEnv.pc = "idle"
    /\ type \in DOMAIN ws.listeners => Len(ws.listeners[type]) < MaxListeners
    /\ ws' = [ws EXCEPT !.listeners =
                 [t \in DOMAIN @ \cup {type} |->
                     IF t = type
                     THEN Append(IF t \in DOMAIN @ THEN @[t] ELSE <<>>, callback)
                     ELSE @[t]]]
    /\ wsEnv' = [wsEnv EXCEPT !.unsubs = @ \cup {<<type, callback>>}]
    /\ UNCHANGED <<lazyVars, svcVars, pg>>

\* this.listeners[type].filter(cb => cb !== callback)
WsFilter(list, callback) == SelectSeq(list, LAMBDA cb : cb # callback)

\* a call of the function that on(type, callback) returned
WsUnsubscribe(type, callback) ==
    /\ wsEnv.pc = "idle"
    /\ <<type, callback>> \in wsEnv.unsubs
    /\ ws' = [ws EXCEPT !.listeners[type] = WsFilter(@, callback)]
    /\ wsEnv' = wsEnv
    /\ UNCHANGED <<lazyVars, svcVars, pg>>

(***************************************************************************)
(* The pagination controls: Pagination (src/unnamed/part_000) and          *)
(* renderPagination of the leaderboard screen (src/unnamed/part_003).      *)
(* pg holds the props of the control and what it rendered last.            *)
(***************************************************************************)
MathMax(a, b) == IF a >= b THEN a ELSE b
MathMin(a, b) == IF a <= b THEN a ELSE b

\* a window whose start is not moved back when the end is cut
PgWindowNoShift(currentPage, totalPages, half) ==
    LET startPage == MathMax(1, currentPage - half)
    IN [startPage |-> startPage,
        endPage |-> MathMin(totalPages, startPage + maxVisible - 1)]

\* startPage and endPage of both controls; half is 2 in Pagination and
\* Math.floor(maxVisible / 2) in renderPagination
PgWindow(currentPage, totalPages, half) ==
    LET startPage == MathMax(1, currentPage - half)
        endPage == MathMin(totalPages, startPage + maxVisible - 1)
    IN [startPage |-> IF endPage - startPage + 1 < maxVisible
                      THEN MathMax(1, endPage - maxVisible + 1) ELSE startPage,
        endPage |-> endPage]

\* a page button, with the active style or without, and an ellipsis (n = 0)
PgElement(kind, n, active) == [kind |-> kind, n |-> n, active |-> active]

\* the elements between the Prev and the Next button: the first page and an
\* ellipsis, the window, an ellipsis and the last page
PgElements(currentPage, totalPages, w) ==
    (IF w.startPage > 1
     THEN <<PgElement("page", 1, FALSE)>>
          \o (IF w.startPage > 2 THEN <<PgElement("ellipsis", 0, FALSE)>> ELSE <<>>)
     ELSE <<>>)
    \o [i \in 1..(w.endPage - w.startPage + 1) |->
           PgElement("page", w.startPage + i - 1, currentPage = w.startPage + i - 1)]
    \o (IF w.endPage < totalPages
        THEN (IF w.endPage < totalPages - 1
              THEN <<PgElement("ellipsis", 0, FALSE)>> ELSE <<>>)
             \o <<PgElement("page", totalPages, FALSE)>>
        ELSE <<>>)

\* Pagination: renderPageNumbers, or null when there is one page at most
RenderPageNumbers(currentPage, totalPages) ==
    IF totalPages <= 1 THEN <<>>
    ELSE PgElements(currentPage, totalPages, PgWindow(currentPage, totalPages, 2))

\* LeaderboardScreen: renderPagination
RenderPagination(page, totalPages) ==
    IF totalPages <= 1 THEN <<>>
    ELSE PgElements(page, totalPages, PgWindow(page, totalPages, maxVisible \div 2))

\* nothing rendered yet
PgNone == [currentPage |-> 1, totalPages |-> 0, by |-> "none", pages |-> <<>>,
           startPage |-> 0, endPage |-> 0]

\* the parent passes new props: any number of pages and a page among them
PgProps(currentPage, totalPages) ==
    /\ currentPage <= MathMax(1, totalPages)
    /\ pg' = [PgNone EXCEPT !.currentPage = currentPage, !.totalPages = totalPages]
    /\ UNCHANGED <<lazyVars, svcVars, ws, wsEnv>>

\* the Pagination component renders
PgRender ==
    /\ pg.by = "none"
    /\ LET w == PgWindow(pg.currentPage, pg.totalPages, 2)
       IN pg' = [pg EXCEPT !.by = "Pagination",
                           !.pages = RenderPageNumbers(pg.currentPage, pg.totalPages),
                           !.startPage = w.startPage, !.endPage = w.endPage]
    /\ UNCHANGED <<lazyVars, svcVars, ws, wsEnv>>

\* the leaderboard screen renders its own control
PgRenderScreen ==
    /\ pg.by = "none"
    /\ LET w == PgWindow(pg.currentPage, pg.totalPages, maxVisible \div 2)
       IN pg' = [pg EXCEPT !.by = "LeaderboardScreen",
                           !.pages = RenderPagination(pg.currentPage, pg.totalPages),
                           !.startPage = w.startPage, !.endPage = w.endPage]
    /\ UNCHANGED <<lazyVars, svcVars, ws, wsEnv>>

\* a page button is pressed: onPageChange(n), and the parent passes n back
PgPress(i) ==
    /\ pg.by # "none"
    /\ i \in DOMAIN pg.pages
    /\ pg.pages[i].kind = "page"
    /\ pg' = [PgNone EXCEPT !.currentPage = pg.pages[i].n, !.totalPages = pg.totalPages]
    /\ UNCHANGED <<lazyVars, svcVars, ws, wsEnv>>

(***************************************************************************)
(* generateUsers                                                           *)
(***************************************************************************)
\* &User{ID, Username, UsernameLower, Rating}: the two name fields, which
\* never change, are kept in userNames, the rest in usersByID
NewUser(u, r) == [ID |-> u, Rating |-> r, Rank |-> 0]
NewUserName(username) == [Username |-> username, UsernameLower |-> ToLower(username)]

\* the comparator of both name sorts
NameBefore(nm, a, b) == LexLess(nm[a].UsernameLower, nm[b].UsernameLower)

\* the first bytes that have a bucket, and each bucket sorted by lower-case name
BucketChars(nm) == {nm[u].Username[1] : u \in {v \in DOMAIN nm : Len(nm[v].Username) > 0}}

\* buckets left in the order of creation, the bucket sort dropped
BuildBucketsUnsorted(nm) ==
    [c \in BucketChars(nm) |->
        SortBy({u \in DOMAIN nm : Len(nm[u].Username) > 0 /\ nm[u].Username[1] = c},
               LAMBDA a, b : a < b)]

BuildBuckets(nm) ==
    [c \in BucketChars(nm) |->
        SortBy({u \in DOMAIN nm : Len(nm[u].Username) > 0 /\ nm[u].Username[1] = c},
               LAMBDA a, b : NameBefore(nm, a, b))]

\* a name index left in the order of creation
BuildSortedByNameUnsorted(nm) == SortBy(DOMAIN nm, LAMBDA a, b : a < b)

BuildSortedByName(nm) == SortBy(DOMAIN nm, LAMBDA a, b : NameBefore(nm, a, b))

\* what a call returned: kind is "ok", "panic" or "notfound"; cached, old and
\* same are history: served from the cache, from an entry copied before a
\* rebuild, and equal to what the call that made the entry returned.
NoRes == [kind |-> "none", users |-> <<>>, total |-> 0, totalPages |-> 0,
          cached |-> FALSE, old |-> FALSE, same |-> TRUE]

\* a goroutine that runs no call; stale and exact are history: the page it
\* copied predates a rebuild, and no batch was committed since its call began
\* after a batch that reached the threshold.
Idle == [pc |-> "idle", op |-> "none", page |-> 0, limit |-> 0, query |-> <<>>,
         stale |-> FALSE, exact |-> FALSE, res |-> NoRes]

\* names[u] and ratings[u] are the draws of rand for user u, u in 1..count
GenerateUsers(count, names, ratings) ==
    LET fresh == [u \in 1..count |-> NewUser(u, ratings[u])]
        nm == [u \in 1..count |->
                  NewUserName(MakeUsername(firstNames[names[u]], lastNames[1], u))]
        st == SortUsersLocked(fresh, [i \in 1..count |-> i])
    IN /\ userNames = nm
       /\ usersByID = st.usersByID
       /\ sortedUsers = st.sortedUsers
       /\ needsSorting = st.needsSorting
       /\ updatedUsers = st.updatedUsers
       /\ updateCount = st.updateCount
       /\ cache = EmptyCache
       /\ sortedByName = BuildSortedByName(nm)
       /\ firstCharBuckets = BuildBuckets(nm)

\* NewUserStore and the rest of the process state
InitRest ==
    /\ mu = [writer |-> 0, readers |-> {}]
    /\ cacheMutex = [writer |-> 0, readers |-> {}]
    /\ now = 0
    /\ th = [t \in Threads |-> Idle]
    /\ lastCommitSorted = FALSE
    /\ effective = 0
    /\ rebuiltRating = RatingsOf(usersByID)
    /\ svc = NewLeaderboardService
    /\ svcTh = [t \in Threads |-> SvcIdle]
    /\ ws = NewWebSocketService
    /\ wsEnv = WsEnvInit
    /\ pg = PgNone

\* one draw of first names: user u gets the u-th first name, cyclically
CyclicNames(count) == [u \in 1..count |-> ((u - 1) % Len(firstNames)) + 1]

\* the concurrent store: a fixed draw of names, every draw of ratings
Init ==
    /\ \E ratings \in [1..NumUsersConc -> ModelRatings] :
          GenerateUsers(NumUsersConc, CyclicNames(NumUsersConc), ratings)
    /\ InitRest

(***************************************************************************)
(* History bookkeeping (not program state).                                *)
(***************************************************************************)
\* a completed rebuild makes every page that was copied and is not yet
\* cached a page of the index before the rebuild
AfterSort(thf) ==
    [x \in Threads |-> IF thf[x].pc = "lb_put" THEN [thf[x] EXCEPT !.stale = TRUE]
                       ELSE thf[x]]

\* and every page that was cached while the rebuild held mu was copied
\* before it
MarkOld(c) == [k \in DOMAIN c |-> [c[k] EXCEPT !.old = TRUE]]

\* a committed batch ends the exactness of the reads in flight
AfterCommit(thf) == [x \in Threads |-> [thf[x] EXCEPT !.exact = FALSE]]

\* the call that goroutine t starts now
Call(op, page, limit, query) ==
    [Idle EXCEPT !.op = op, !.page = page, !.limit = limit, !.query = query,
                 !.exact = lastCommitSorted]

Result(kind, users, total, totalPages) ==
    [kind |-> kind, users |-> users, total |-> total, totalPages |-> totalPages,
     cached |-> FALSE, old |-> FALSE, same |-> TRUE]

\* *user: the copy of an entity that a page or a search result holds
CopyOf(u) == usersByID[u]

(***************************************************************************)
(* updateRandomScores                                                      *)
(***************************************************************************)
\* a new rating that is left as it was drawn
ClampNone(newRating) == newRating

\* the clamp of the new rating to 100-5000
Clamp(newRating) ==
    IF newRating < MinRating THEN MinRating
    ELSE IF newRating > MaxRating THEN MaxRating
    ELSE newRating

\* an iteration that counts every attempt as a pending update
UpdateOneCountsAttempts(st, seq, draw) ==
    LET user == seq[draw[1]]
        oldRating == st.usersByID[user].Rating
        newRating == Clamp(oldRating + draw[2])
    IN IF newRating # oldRating
       THEN [usersByID |-> [st.usersByID EXCEPT ![user].Rating = newRating],
             updatedUsers |-> st.updatedUsers \cup {user},
             updateCount |-> st.updateCount + 1,
             updated |-> st.updated + 1]
       ELSE [st EXCEPT !.updateCount = st.updateCount + 1]

\* one iteration of the loop: draw = <<idx, change>>, idx a position of sortedUsers
UpdateOne(st, seq, draw) ==
    LET user == seq[draw[1]]
        oldRating == st.usersByID[user].Rating
        newRating == Clamp(oldRating + draw[2])
    IN IF newRating # oldRating
       THEN [usersByID |-> [st.usersByID EXCEPT ![user].Rating = newRating],
             updatedUsers |-> st.updatedUsers \cup {user},
             updateCount |-> st.updateCount + 1,
             updated |-> st.updated + 1]
       ELSE st

RECURSIVE UpdateLoop(_, _, _, _)
UpdateLoop(st, seq, draws, i) ==
    IF i > Len(draws) THEN st
    ELSE UpdateLoop(UpdateOne(st, seq, draws[i]), seq, draws, i + 1)

\* the draws of one batch
BatchDraws(count) == [1..count -> (1..Len(sortedUsers)) \X Changes]

\* the model follows the draws that keep every rating among ModelRatings
InModel(us) == \A u \in DOMAIN us : us[u].Rating \in ModelRatings

\* what the loop of a batch of count draws can leave
BatchOutcomes(count) ==
    LET st0 == [usersByID |-> usersByID, updatedUsers |-> updatedUsers,
                updateCount |-> updateCount, updated |-> 0]
        all == {UpdateLoop(st0, sortedUsers, draws, 1) : draws \in BatchDraws(count)}
    IN {st \in all : InModel(st.usersByID)}

\* the ends of rand.Intn(401) - 200, and no change
MutChanges == {-200, 0, 200}

\* the ratings the mutation spec follows: those within 400 of either bound,
\* and what an unclamped change could make of them
MutWindow ==
    ((MinRating - 200)..(MinRating + 400)) \cup ((MaxRating - 400)..(MaxRating + 200))

\* what the loop of a batch of count draws out of MutChanges can leave
MutOutcomes(count) ==
    LET st0 == [usersByID |-> usersByID, updatedUsers |-> updatedUsers,
                updateCount |-> updateCount, updated |-> 0]
        draws == [1..count -> (1..Len(sortedUsers)) \X MutChanges]
        all == {UpdateLoop(st0, sortedUsers, d, 1) : d \in draws}
    IN {st \in all : \A u \in DOMAIN st.usersByID : st.usersByID[u].Rating \in MutWindow}

\* if s.updateCount >= int64(s.sortThreshold)
ReachedThreshold(count) == count >= sortThreshold

\* a decision that marks the index dirty whatever the loop changed
AfterLoopAlwaysDirty(st, seq) ==
    IF st.updated > 0 /\ ReachedThreshold(st.updateCount)
    THEN SortUsersLocked(st.usersByID, seq)
    ELSE [usersByID |-> st.usersByID, sortedUsers |-> seq, needsSorting |-> TRUE,
          updatedUsers |-> st.updatedUsers, updateCount |-> st.updateCount]

\* the decision after the loop: mark dirty, and rebuild at the threshold
\* a batch below the threshold that fails to raise needsSorting
AfterLoopKeepsClean(st, seq) ==
    IF st.updated > 0 /\ ReachedThreshold(st.updateCount)
    THEN SortUsersLocked(st.usersByID, seq)
    ELSE [usersByID |-> st.usersByID, sortedUsers |-> seq, needsSorting |-> needsSorting,
          updatedUsers |-> st.updatedUsers, updateCount |-> st.updateCount]

AfterLoop(st, seq) ==
    IF st.updated > 0
    THEN IF ReachedThreshold(st.updateCount)
         THEN SortUsersLocked(st.usersByID, seq)
         ELSE [usersByID |-> st.usersByID, sortedUsers |-> seq, needsSorting |-> TRUE,
               updatedUsers |-> st.updatedUsers, updateCount |-> st.updateCount]
    ELSE [usersByID |-> st.usersByID, sortedUsers |-> seq, needsSorting |-> needsSorting,
          updatedUsers |-> st.updatedUsers, updateCount |-> st.updateCount]

\* mu.Lock(), the loop and the decision, for the loop outcomes given; a
\* batch that changed something goes on to clearCache (in sortUsersLocked or
\* in the else branch), the others unlock and return.  The call keeps the
\* loop's counter `updated` in res.total.
UpdateRandomScoresOf(t, outcomes) ==
    /\ th[t].pc = "idle"
    /\ CanLock(mu)
    /\ Len(sortedUsers) # 0
    /\ \E st1 \in outcomes :
         LET st2 == AfterLoop(st1, sortedUsers)
             call == [Call("update", 0, 0, <<>>) EXCEPT
                         !.res = Result("ok", <<>>, st1.updated, 0)]
         IN /\ usersByID' = st2.usersByID
            /\ sortedUsers' = st2.sortedUsers
            /\ needsSorting' = st2.needsSorting
            /\ updatedUsers' = st2.updatedUsers
            /\ updateCount' = st2.updateCount
            /\ effective' = IF st1.updated > 0 /\ ReachedThreshold(st1.updateCount)
                            THEN 0 ELSE effective + st1.updated
            /\ rebuiltRating' = IF st1.updated > 0 /\ ReachedThreshold(st1.updateCount)
                                THEN RatingsOf(st2.usersByID) ELSE rebuiltRating
            /\ IF st1.updated > 0
               THEN /\ mu' = Locked(mu, t)
                    /\ th' = [th EXCEPT ![t] = [call EXCEPT !.pc = "urs_clear"]]
               ELSE /\ mu' = mu
                    /\ th' = [th EXCEPT ![t] = [call EXCEPT !.pc = "done"]]
    /\ UNCHANGED <<nameVars, cache, cacheMutex, now, lastCommitSorted, svcVars, clientVars>>

\* a batch of count draws within the model's ratings
UpdateRandomScores(t, count) == UpdateRandomScoresOf(t, BatchOutcomes(count))

\* clearCache, in sortUsersLocked or in the else branch
UpdateClearCache(t) ==
    /\ th[t].pc = "urs_clear"
    /\ CanLock(cacheMutex)
    /\ cache' = EmptyCache
    /\ th' = [th EXCEPT ![t].pc = "urs_unlock"]
    /\ UNCHANGED <<storeVars, nameVars, mu, cacheMutex, now, histVars, svcVars, clientVars>>

\* the deferred mu.Unlock(): the batch is committed
UpdateUnlock(t) ==
    /\ th[t].pc = "urs_unlock"
    /\ mu' = Unlocked(mu)
    /\ th' = LET thf == AfterCommit([th EXCEPT ![t] = Idle])
             IN IF needsSorting THEN thf ELSE AfterSort(thf)
    /\ cache' = IF needsSorting THEN cache ELSE MarkOld(cache)
    /\ lastCommitSorted' = ~needsSorting
    /\ effective' = effective
    /\ rebuiltRating' = rebuiltRating
    /\ UNCHANGED <<storeVars, nameVars, cacheMutex, now, svcVars, clientVars>>

(***************************************************************************)
(* The rebuild of a caller that holds no lock yet: mu.Lock() and           *)
(* sortUsersLocked() up to its clearCache, then clearCache and mu.Unlock() *)
(***************************************************************************)
LockAndSort(t, nextpc) ==
    /\ CanLock(mu)
    /\ LET st == SortUsersLocked(usersByID, sortedUsers)
       IN /\ usersByID' = st.usersByID
          /\ sortedUsers' = st.sortedUsers
          /\ needsSorting' = st.needsSorting
          /\ updatedUsers' = st.updatedUsers
          /\ updateCount' = st.updateCount
    /\ mu' = Locked(mu, t)
    /\ th' = [th EXCEPT ![t].pc = nextpc]
    /\ effective' = 0
    /\ rebuiltRating' = RatingsOf(usersByID)
    /\ UNCHANGED <<nameVars, cache, cacheMutex, now, lastCommitSorted, svcVars, clientVars>>

\* clearCache, the last statement of sortUsersLocked, mu still held
ClearCache(t, nextpc) ==
    /\ CanLock(cacheMutex)
    /\ cache' = EmptyCache
    /\ th' = [th EXCEPT ![t].pc = nextpc]
    /\ UNCHANGED <<storeVars, nameVars, mu, cacheMutex, now, histVars, svcVars, clientVars>>

\* mu.Unlock() after sortUsersLocked: the rebuild is complete
UnlockAfterSort(t, next) ==
    /\ mu' = Unlocked(mu)
    /\ th' = AfterSort([th EXCEPT ![t] = next])
    /\ cache' = MarkOld(cache)
    /\ UNCHANGED <<storeVars, nameVars, cacheMutex, now, histVars, svcVars, clientVars>>

(***************************************************************************)
(* forceSortHandler                                                        *)
(***************************************************************************)
ForceSortLock(t) ==
    /\ th[t].pc = "idle"
    /\ LockAndSort(t, "fs_clear")

ForceSortClearCache(t) ==
    /\ th[t].pc = "fs_clear"
    /\ ClearCache(t, "fs_unlock")

ForceSortUnlock(t) ==
    /\ th[t].pc = "fs_unlock"
    /\ UnlockAfterSort(t, Idle)

(***************************************************************************)
(* GetLeaderboard                                                          *)
(***************************************************************************)
\* fmt.Sprintf("lb:%d:%d", page, limit): one key per pair
CacheKey(page, limit) == <<page, limit>>

\* time.Since(entry.timestamp) <= s.cacheTTL
Fresh(entry) == now - entry.timestamp <= cacheTTL

\* a number of pages that is rounded down
TotalPagesFloor(total, limit) == GoDiv(total, limit)

\* (total + limit - 1) / limit
TotalPages(total, limit) == GoDiv(total + limit - 1, limit)

\* the cache-hit return: the division is made with the caller's limit
HitResult(entry, limit) ==
    LET total == Len(sortedUsers)
    IN IF limit = 0
       THEN [Result("panic", <<>>, 0, 0) EXCEPT !.cached = TRUE, !.old = entry.old,
                                                !.same = FALSE]
       ELSE LET totalPages == TotalPages(total, limit)
            IN [Result("ok", entry.data, total, totalPages) EXCEPT
                   !.cached = TRUE, !.old = entry.old,
                   !.same = (total = entry.firstTotal /\ totalPages = entry.firstPages)]

\* the cache check under cacheMutex.RLock(); a hit returns at once, and the
\* division by a zero limit panics before cacheMutex.RUnlock()
LbStart(t, page, limit) ==
    /\ th[t].pc = "idle"
    /\ CanRLock(cacheMutex)
    /\ LET cacheKey == CacheKey(page, limit)
           call == Call("leaderboard", page, limit, <<>>)
       IN IF cacheKey \in DOMAIN cache /\ Fresh(cache[cacheKey])
          THEN LET r == HitResult(cache[cacheKey], limit)
               IN /\ th' = [th EXCEPT ![t] = [call EXCEPT !.pc = "done", !.res = r]]
                  /\ cacheMutex' = IF r.kind = "panic" THEN RLocked(cacheMutex, t)
                                   ELSE cacheMutex
          ELSE /\ th' = [th EXCEPT ![t] = [call EXCEPT !.pc = "lb_rlock"]]
               /\ cacheMutex' = cacheMutex
    /\ UNCHANGED <<storeVars, nameVars, cache, mu, now, histVars, svcVars, clientVars>>

\* if page < 1 { page = 1 }; if limit < 1 { limit = 45 }
PageOrDefault(page) == IF page < 1 THEN defaultPage ELSE page
LimitOrDefault(limit) == IF limit < 1 THEN defaultLimit ELSE limit

\* the page of the rating index that a call with these arguments copies:
\* the defaults, start and end, the copy of sortedUsers[start:end]
LbPage(page0, limit0) ==
    LET page == PageOrDefault(page0)
        limit == LimitOrDefault(limit0)
        total == Len(sortedUsers)
        start == (page - 1) * limit
        end == IF start + limit > total THEN total ELSE start + limit
        users == [i \in 1..(end - start) |-> CopyOf(sortedUsers[start + i])]
    IN IF start >= total
       THEN Result("ok", <<>>, total, 0)
       ELSE Result("ok", users, total, TotalPages(total, limit))

\* the copy under the read lock and s.mu.RUnlock(); a page past the end is
\* returned at once, any other goes on to the cache
LbCopyPage(t) ==
    LET start == (PageOrDefault(th[t].page) - 1) * LimitOrDefault(th[t].limit)
    IN /\ mu' = RUnlocked(mu, t)
       /\ th' = [th EXCEPT ![t].pc = IF start >= Len(sortedUsers) THEN "done" ELSE "lb_put",
                           ![t].res = LbPage(th[t].page, th[t].limit)]

\* s.mu.RLock() and the test of needsSorting: a clean index is copied under
\* this read lock, a dirty one leaves the reader holding it
LbRLock(t) ==
    /\ th[t].pc = "lb_rlock"
    /\ CanRLock(mu)
    /\ IF needsSorting
       THEN /\ mu' = RLocked(mu, t)
            /\ th' = [th EXCEPT ![t].pc = "lb_dirty"]
       ELSE LbCopyPage(t)
    /\ UNCHANGED <<storeVars, nameVars, cache, cacheMutex, now, histVars, svcVars, clientVars>>

\* s.mu.RUnlock() of the upgrade
LbRUnlock(t) ==
    /\ th[t].pc = "lb_dirty"
    /\ mu' = RUnlocked(mu, t)
    /\ th' = [th EXCEPT ![t].pc = "lb_lock"]
    /\ UNCHANGED <<storeVars, nameVars, cache, cacheMutex, now, histVars, svcVars, clientVars>>

\* s.mu.Lock(); s.sortUsersLocked(): needsSorting is not looked at again
LbLockSort(t) ==
    /\ th[t].pc = "lb_lock"
    /\ LockAndSort(t, "lb_clear")

\* clearCache at the end of sortUsersLocked
LbClearCache(t) ==
    /\ th[t].pc = "lb_clear"
    /\ ClearCache(t, "lb_unlock")

\* s.mu.Unlock()
LbUnlock(t) ==
    /\ th[t].pc = "lb_unlock"
    /\ UnlockAfterSort(t, [th[t] EXCEPT !.pc = "lb_rlock2"])

\* s.mu.RLock() after the upgrade, and the copy, whatever needsSorting is now
LbRLock2(t) ==
    /\ th[t].pc = "lb_rlock2"
    /\ CanRLock(mu)
    /\ LbCopyPage(t)
    /\ UNCHANGED <<storeVars, nameVars, cache, cacheMutex, now, histVars, svcVars, clientVars>>

\* s.cache[cacheKey] = cacheEntry{users, time.Now()} under cacheMutex.Lock()
LbPut(t) ==
    /\ th[t].pc = "lb_put"
    /\ CanLock(cacheMutex)
    /\ LET cacheKey == CacheKey(th[t].page, th[t].limit)
           entry == [data |-> th[t].res.users, timestamp |-> now, old |-> th[t].stale,
                     firstTotal |-> th[t].res.total, firstPages |-> th[t].res.totalPages]
       IN cache' = [k \in DOMAIN cache \cup {cacheKey} |->
                       IF k = cacheKey THEN entry ELSE cache[k]]
    /\ th' = [th EXCEPT ![t].pc = "done"]
    /\ UNCHANGED <<storeVars, nameVars, mu, cacheMutex, now, histVars, svcVars, clientVars>>

(***************************************************************************)
(* SearchUsers                                                             *)
(***************************************************************************)
\* sort.Search(len(seq), func(i) { return seq[i].UsernameLower >= query }),
\* positions counted from 0
\* a binary search for the first name strictly above the query
RECURSIVE SortSearchStrict(_, _, _, _)
SortSearchStrict(seq, query, i, j) ==
    IF i < j
    THEN LET h == (i + j) \div 2
         IN IF ~LexLess(query, userNames[seq[h + 1]].UsernameLower)
            THEN SortSearchStrict(seq, query, h + 1, j)
            ELSE SortSearchStrict(seq, query, i, h)
    ELSE i

RECURSIVE SortSearch(_, _, _, _)
SortSearch(seq, query, i, j) ==
    IF i < j
    THEN LET h == (i + j) \div 2
         IN IF ~LexGeq(userNames[seq[h + 1]].UsernameLower, query)
            THEN SortSearch(seq, query, h + 1, j)
            ELSE SortSearch(seq, query, i, h)
    ELSE i

\* the scan of the bucket from position i (counted from 0)
RECURSIVE ScanBucket(_, _, _, _)
ScanBucket(bucket, query, i, results) ==
    IF i >= Len(bucket) THEN results
    ELSE LET user == bucket[i + 1]
         IN IF ~HasPrefix(userNames[user].UsernameLower, query) THEN results
            ELSE LET more == Append(results, CopyOf(user))
                 IN IF Len(more) >= searchCap THEN more
                    ELSE ScanBucket(bucket, query, i + 1, more)

\* the scan of the whole name index from position i (counted from 0)
RECURSIVE ScanSortedByName(_, _, _)
ScanSortedByName(query, i, results) ==
    IF i >= Len(sortedByName) THEN results
    ELSE LET user == sortedByName[i + 1]
         IN IF HasPrefix(userNames[user].UsernameLower, query)
            THEN LET more == Append(results, CopyOf(user))
                 IN IF Len(more) >= searchCap THEN more
                    ELSE ScanSortedByName(query, i + 1, more)
            ELSE results

\* binary search and scan within the bucket
BucketResults(bucket, query) ==
    ScanBucket(bucket, query, SortSearch(bucket, query, 0, Len(bucket)), <<>>)

\* binary search and scan on the full sorted list
FullResults(query) ==
    ScanSortedByName(query, SortSearch(sortedByName, query, 0, Len(sortedByName)), <<>>)

\* the matches, by the bucket of query[0] or else by the whole name index
SearchResults(query) ==
    LET firstChar == query[1]
    IN IF firstChar \in DOMAIN firstCharBuckets
       THEN BucketResults(firstCharBuckets[firstChar], query)
       ELSE FullResults(query)

\* the page of the matches: results[start:end] panics on start < 0 or
\* end < start, the division on limit = 0
SearchPage(results, page, limit) ==
    LET total == Len(results)
        start == (page - 1) * limit
        end == IF start + limit > total THEN total ELSE start + limit
    IN IF start >= total THEN Result("ok", <<>>, total, 0)
       ELSE IF start < 0 \/ end < start \/ limit = 0 THEN Result("panic", <<>>, 0, 0)
       ELSE Result("ok", SubSeq(results, start + 1, end), total, TotalPages(total, limit))

\* strings.ToLower(strings.TrimSpace(query))
NormalQuery(q) == ToLower(TrimSpace(q))

\* the search proper, under the read lock; the deferred RUnlock runs on
\* return and on panic alike
SuSearch(t) ==
    /\ mu' = RUnlocked(mu, t)
    /\ th' = [th EXCEPT ![t].pc = "done",
                        ![t].res = SearchPage(SearchResults(th[t].query),
                                              th[t].page, th[t].limit)]

\* s.mu.RLock(), the short-query return, the test of needsSorting
SuStart(t, q, page, limit) ==
    /\ th[t].pc = "idle"
    /\ CanRLock(mu)
    /\ LET query == NormalQuery(q)
           call == Call("search", page, limit, query)
       IN IF query = <<>> \/ Len(query) < 2
          THEN /\ mu' = mu
               /\ th' = [th EXCEPT ![t] = [call EXCEPT !.pc = "done",
                                                       !.res = Result("ok", <<>>, 0, 0)]]
          ELSE IF needsSorting
          THEN /\ mu' = RLocked(mu, t)
               /\ th' = [th EXCEPT ![t] = [call EXCEPT !.pc = "su_dirty"]]
          ELSE /\ mu' = mu
               /\ th' = [th EXCEPT ![t] =
                            [call EXCEPT !.pc = "done",
                                         !.res = SearchPage(SearchResults(query), page, limit)]]
    /\ UNCHANGED <<storeVars, nameVars, cache, cacheMutex, now, histVars, svcVars, clientVars>>

SuRUnlock(t) ==
    /\ th[t].pc = "su_dirty"
    /\ mu' = RUnlocked(mu, t)
    /\ th' = [th EXCEPT ![t].pc = "su_lock"]
    /\ UNCHANGED <<storeVars, nameVars, cache, cacheMutex, now, histVars, svcVars, clientVars>>

SuLockSort(t) ==
    /\ th[t].pc = "su_lock"
    /\ LockAndSort(t, "su_clear")

SuClearCache(t) ==
    /\ th[t].pc = "su_clear"
    /\ ClearCache(t, "su_unlock")

SuUnlock(t) ==
    /\ th[t].pc = "su_unlock"
    /\ UnlockAfterSort(t, [th[t] EXCEPT !.pc = "su_rlock2"])

SuRLock2(t) ==
    /\ th[t].pc = "su_rlock2"
    /\ CanRLock(mu)
    /\ SuSearch(t)
    /\ UNCHANGED <<storeVars, nameVars, cache, cacheMutex, now, histVars, svcVars, clientVars>>

(***************************************************************************)
(* GetUserRank                                                             *)
(***************************************************************************)
\* s.usersByName[username]: the users of exactly that name
UsersByName(username) == {u \in Users : userNames[u].Username = username}

\* a count of the other users of the same rating, the user left out
TieCountOthers(user) == Cardinality({u \in Range(sortedUsers) \ {user} :
                                        usersByID[u].Rating = usersByID[user].Rating})

\* the number of users of the same rating; it is returned in total
TieCount(user) == Cardinality({u \in Range(sortedUsers) :
                                  usersByID[u].Rating = usersByID[user].Rating})

GetUserRank(t, username) ==
    /\ th[t].pc = "idle"
    /\ CanRLock(mu)
    /\ LET call == Call("rank", 0, 0, username)
           r == IF UsersByName(username) = {} THEN Result("notfound", <<>>, 0, 0)
                ELSE LET user == CHOOSE u \in UsersByName(username) : TRUE
                     IN Result("ok", <<CopyOf(user)>>, TieCount(user), 0)
       IN th' = [th EXCEPT ![t] = [call EXCEPT !.pc = "done", !.res = r]]
    /\ UNCHANGED <<storeVars, nameVars, cache, mu, cacheMutex, now, histVars, svcVars, clientVars>>

(***************************************************************************)
(* The request layer and the clock                                         *)
(***************************************************************************)
\* the handler has written its response, or net/http has recovered its
\* panic: the goroutine ends.  A lock it still holds stays held.
Return(t) ==
    /\ th[t].pc = "done"
    /\ th' = [th EXCEPT ![t] = Idle]
    /\ UNCHANGED <<storeVars, nameVars, cache, mu, cacheMutex, now, histVars, svcVars, clientVars>>

Tick ==
    /\ now < MaxTime
    /\ now' = now + 1
    /\ UNCHANGED <<storeVars, nameVars, cache, mu, cacheMutex, th, histVars, svcVars, clientVars>>

\* a finished call is answered before any goroutine takes its next step:
\* returning touches nothing that is shared
NoneDone == \A t \in Threads : th[t].pc # "done"

\* the steps inside the calls
WriteInner(t) ==
    \/ UpdateClearCache(t)
    \/ UpdateUnlock(t)
    \/ ForceSortClearCache(t)
    \/ ForceSortUnlock(t)

LbInner(t) ==
    \/ LbRLock(t)
    \/ LbRUnlock(t)
    \/ LbLockSort(t)
    \/ LbClearCache(t)
    \/ LbUnlock(t)
    \/ LbRLock2(t)
    \/ LbPut(t)

SuInner(t) ==
    \/ SuRUnlock(t)
    \/ SuLockSort(t)
    \/ SuClearCache(t)
    \/ SuUnlock(t)
    \/ SuRLock2(t)

(***************************************************************************)
(* Spec: the store under concurrent goroutines.                            *)
(***************************************************************************)
\* strconv.Atoi of the page and limit parameters
ConcPages == {1}
ConcLimits == {1}
\* "Am ": the query of the concurrent searches
ConcQueries == {<<65, 109, 32>>}
\* the name of the first user, and "nobody"
ConcNames == {userNames[1].Username, <<110, 111, 98, 111, 100, 121>>}

Next ==
    \/ \E t \in Threads : Return(t)
    \/ /\ NoneDone
       /\ \/ \E t \in Threads, count \in 1..MaxBatch : UpdateRandomScores(t, count)
          \/ \E t \in Threads : ForceSortLock(t)
          \/ \E t \in Threads, page \in ConcPages, limit \in ConcLimits :
                LbStart(t, page, limit)
          \/ \E t \in Threads, q \in ConcQueries, page \in ConcPages :
                SuStart(t, q, page, NumUsersConc)
          \/ \E t \in Threads, username \in ConcNames : GetUserRank(t, username)
          \/ \E t \in Threads : WriteInner(t) \/ LbInner(t) \/ SuInner(t)

Spec == Init /\ [][Next]_vars

(***************************************************************************)
(* SeqSpec: one goroutine, every kind of page and limit.                   *)
(***************************************************************************)
SeqInit ==
    /\ \E ratings \in [1..NumUsers -> ModelRatings] :
          GenerateUsers(NumUsers, CyclicNames(NumUsers), ratings)
    /\ InitRest

\* strconv.Atoi of the page and limit parameters: any integer, 0 when missing
SeqPages == {0, 2}
SeqLimits == {-1, 0, 2}

SeqNext ==
    \/ Return(1)
    \/ /\ NoneDone
       /\ \/ \E count \in 1..MaxBatch : UpdateRandomScores(1, count)
          \/ ForceSortLock(1)
          \/ \E page \in SeqPages, limit \in SeqLimits : LbStart(1, page, limit)
          \/ WriteInner(1)
          \/ LbInner(1)
          \/ /\ th[1].pc = "idle"
             /\ Tick

SeqSpec == SeqInit /\ [][SeqNext]_vars

(***************************************************************************)
(* SearchSpec: one goroutine searching every population of names.          *)
(***************************************************************************)
SearchInit ==
    /\ \E names \in [1..NumUsers -> 1..Len(firstNames)],
          ratings \in [1..NumUsers -> ModelRatings] :
          GenerateUsers(NumUsers, names, ratings)
    /\ InitRest

\* "a", "  ", "am", " AMY_ ", "zo", "xy", "amit_das2"
SearchQueries ==
    {<<97>>, <<32, 32>>, <<97, 109>>, <<32, 65, 77, 89, 95, 32>>, <<122, 111>>,
     <<120, 121>>, <<97, 109, 105, 116, 95, 100, 97, 115, 50>>}
SearchPages == {0, 1, 2}
SearchLimits == {-1, 0, 1, NumUsers}
\* "amy_das1", "Amy_das1", "nobody"
RankNames ==
    {<<97, 109, 121, 95, 100, 97, 115, 49>>, <<65, 109, 121, 95, 100, 97, 115, 49>>,
     <<110, 111, 98, 111, 100, 121>>}

SearchNext ==
    \/ Return(1)
    \/ /\ NoneDone
       /\ \/ \E q \in SearchQueries, page \in SearchPages, limit \in SearchLimits :
                SuStart(1, q, page, limit)
          \/ \E username \in RankNames : GetUserRank(1, username)

SearchSpec == SearchInit /\ [][SearchNext]_vars

(***************************************************************************)
(* MutSpec: one goroutine that mutates ratings at both bounds of the       *)
(* rating range, lists and forces sorts.                                   *)
(***************************************************************************)
\* rating := 100 + rand.Intn(4901)
InitialRating(n) == 100 + n

\* the least and the greatest value of rand.Intn(4901), and one near the least
MutIntn == {0, 100, 4900}

\* the only page of all users, and the page after it
MutPages == {1, 2}

MutInit ==
    /\ \E draws \in [1..NumUsersConc -> MutIntn] :
          GenerateUsers(NumUsersConc, CyclicNames(NumUsersConc),
                        [u \in 1..NumUsersConc |-> InitialRating(draws[u])])
    /\ InitRest

MutNext ==
    \/ Return(1)
    \/ /\ NoneDone
       /\ \/ \E count \in 1..MaxBatch : UpdateRandomScoresOf(1, MutOutcomes(count))
          \/ ForceSortLock(1)
          \/ \E page \in MutPages : LbStart(1, page, NumUsersConc)
          \/ WriteInner(1)
          \/ LbInner(1)

MutSpec == MutInit /\ [][MutNext]_vars

(***************************************************************************)
(* SvcSpec: the eager store, seeded once, with goroutines that list pages  *)
(* and run update cycles; the UserStore stands still.                      *)
(***************************************************************************)
SvcPages == {0, 1, 3}
SvcPageSizes == {0, 2, 101}
\* "mi", " LE" and the empty query
SvcQueries == {<<109, 105>>, <<32, 76, 69>>, <<>>}

SvcInit ==
    /\ GenerateUsers(NumUsersConc, CyclicNames(NumUsersConc),
                     [u \in 1..NumUsersConc |-> MaxRating])
    /\ InitRest

SvcNext ==
    /\ SvcRunning
    /\ \/ \E t \in Threads, count \in 0..SvcSeedMax : SeedUsers(t, count)
       \/ \E t \in Threads : SvcUpdateScores(t)
       \/ \E t \in Threads : SvcRecalculate(t)
       \/ \E t \in Threads, page \in SvcPages, pageSize \in SvcPageSizes :
             SvcLbRLock(t, page, pageSize)
       \/ \E t \in Threads : SvcLbRespond(t)
       \/ \E t \in Threads, q \in SvcQueries : SvcSearchRLock(t, q)
       \/ \E t \in Threads : SvcSearchRespond(t)
       \/ \E t \in Threads : SvcReturn(t)

SvcSpec == SvcInit /\ [][SvcNext]_vars

(***************************************************************************)
(* WsSpec: the WebSocket client and a listener of connection_change,       *)
(* under calls of connect(), disconnect() and send(), socket events and    *)
(* timers.  WsFairSpec adds that a loop that runs keeps running: the       *)
(* JavaScript engine does not stop in the middle of a handler.             *)
(***************************************************************************)
\* the stores stand still, as in SvcInit; the module is loaded
WsInit == SvcInit

\* the socket objects created so far
WsSockets == DOMAIN wsEnv.sockets

WsNext ==
    \/ WsConnect
    \/ WsAutoConnect
    \/ WsTimer
    \/ \E s \in WsSockets : WsOnOpen(s)
    \/ ProcessMessageQueue
    \/ \E s \in WsSockets : WsOnError(s)
    \/ \E s \in WsSockets, code \in WsCloseCodes : WsOnClose(s, code)
    \/ WsDisconnect
    \/ \E m \in WsMessages : WsSend(m)
    \/ WsOn("connection_change", 1)

WsSpec == WsInit /\ [][WsNext]_vars

WsFairSpec == WsSpec /\ WF_vars(ProcessMessageQueue)

(***************************************************************************)
(* WsListenSpec: the listeners of the client: on(), the functions it       *)
(* returns, and the messages of an open socket.                            *)
(***************************************************************************)
WsListenNext ==
    \/ WsAutoConnect
    \/ \E s \in WsSockets : WsOnOpen(s)
    \/ ProcessMessageQueue
    \/ \E type \in WsOnTypes, callback \in WsCallbacks : WsOn(type, callback)
    \/ \E type \in WsOnTypes, callback \in WsCallbacks : WsUnsubscribe(type, callback)
    \/ \E s \in WsSockets, type \in WsOnTypes : WsOnMessage(s, type)

WsListenSpec == WsInit /\ [][WsListenNext]_vars

(***************************************************************************)
(* PgSpec: the pagination controls under every number of pages and every   *)
(* page among them.                                                        *)
(***************************************************************************)
PgNext ==
    \/ \E totalPages \in 0..MaxPages, currentPage \in 1..MaxPages :
          PgProps(currentPage, totalPages)
    \/ PgRender
    \/ PgRenderScreen
    \/ \E i \in 1..(maxVisible + 4) : PgPress(i)

PgSpec == WsInit /\ [][PgNext]_vars

(***************************************************************************)
(* Properties                                                              *)
(***************************************************************************)
\* the competition rank of u under the current ratings
CompetitionRank(u) ==
    1 + Cardinality({v \in Users : usersByID[v].Rating > usersByID[u].Rating})

RatingAt(i) == usersByID[sortedUsers[i]].Rating
RankAt(i) == usersByID[sortedUsers[i]].Rank
Positions == 1..Len(sortedUsers)

Finished(t, op) == th[t].pc = "done" /\ th[t].op = op

\* C1: whenever nobody holds the exclusive lock and needsSorting is false,
\* every user's Rank is its competition rank under the current ratings and
\* sortedUsers is in non-increasing order of rating.
C1_RanksWhenClean ==
    (mu.writer = 0 /\ ~needsSorting) =>
        /\ \A u \in Users : usersByID[u].Rank = CompetitionRank(u)
        /\ \A i, j \in Positions : i < j => RatingAt(i) >= RatingAt(j)

\* a clean, unlocked state after a batch that reached the threshold, with
\* two different ranks
C1_Witness ==
    /\ mu.writer = 0 /\ ~needsSorting /\ lastCommitSorted
    /\ \E u, v \in Users : usersByID[u].Rank < usersByID[v].Rank

\* the rebuild has just run in goroutine t, which still holds the lock
JustRebuilt(t) ==
    /\ mu.writer = t
    /\ \/ th[t].pc \in {"fs_clear", "lb_clear", "su_clear"}
       \/ th[t].pc = "urs_clear" /\ ~needsSorting

\* positions p .. p+L-1 are a maximal run of equal ratings
MaximalRun(p, L) ==
    /\ \A k \in p..(p + L - 1) : RatingAt(k) = RatingAt(p)
    /\ p = 1 \/ RatingAt(p - 1) # RatingAt(p)
    /\ p + L > Len(sortedUsers) \/ RatingAt(p + L) # RatingAt(p)

\* C2: right after a rebuild the index is in non-increasing order of rating,
\* every member of a maximal run of equal ratings that starts at position p
\* has rank p, and the run after a run of length L has rank p + L.
C2_TieLawAfterRebuild ==
    \A t \in Threads : JustRebuilt(t) =>
        /\ \A i, j \in Positions : i < j => RatingAt(i) >= RatingAt(j)
        /\ \A p \in Positions : \A L \in 1..(Len(sortedUsers) - p + 1) :
              MaximalRun(p, L) =>
                 /\ \A k \in p..(p + L - 1) : RankAt(k) = p
                 /\ p + L <= Len(sortedUsers) => RankAt(p + L) = p + L

\* a rebuild inside a batch left two users tied at rank 1 and a third at rank 3
C2_Witness ==
    \E t \in Threads :
        /\ JustRebuilt(t) /\ th[t].pc = "urs_clear"
        /\ Len(sortedUsers) >= 3
        /\ RankAt(1) = 1 /\ RankAt(2) = 1 /\ RankAt(3) = 3

\* the record r of a result shows the current rating and competition rank
ExactRecord(r) ==
    r.Rating = usersByID[r.ID].Rating /\ r.Rank = CompetitionRank(r.ID)

\* C3: a read that began after a batch reached the threshold, with no batch
\* committed since, returns for every user its current rating and its
\* competition rank under the current ratings.
C3_ReadsExactAfterThreshold ==
    \A t \in Threads :
        (th[t].pc = "done" /\ th[t].op \in {"leaderboard", "search", "rank"}
            /\ th[t].exact /\ th[t].res.kind = "ok" /\ mu.writer = 0) =>
        \A i \in DOMAIN th[t].res.users : ExactRecord(th[t].res.users[i])

\* C4: no ListRanked call is answered from the cache with a page that was
\* copied from the index before a rebuild that had completed when the call
\* began.
C4_NoPageFromBeforeRebuild ==
    \A t \in Threads : (Finished(t, "leaderboard") /\ th[t].res.cached) => ~th[t].res.old

\* C5: a reader that has given up its shared access to upgrade rebuilds only
\* if needsSorting is still true when it holds exclusive access.
C5_RebuildOnlyIfStillDirty ==
    [][\A t \in Threads :
          (th[t].pc \in {"lb_lock", "su_lock"} /\ th'[t].pc \in {"lb_clear", "su_clear"})
             => needsSorting]_vars

Min(a, b) == IF a < b THEN a ELSE b

\* the answer to a valid page and limit: the number of pages, 0 past the end
PagesOf(total, page, limit) ==
    IF (page - 1) * limit >= total THEN 0 ELSE (total + limit - 1) \div limit

\* and the number of users on the page
LengthOf(total, page, limit) ==
    IF (page - 1) * limit >= total THEN 0 ELSE Min(limit, total - (page - 1) * limit)

\* C6: every ListRanked call completes, whatever page and limit are, and
\* answers as the call with page 1 and limit 45 in place of the invalid
\* values does, on the cache-miss and on the cache-hit path.
C6_ListRankedDefaults ==
    \A t \in Threads : Finished(t, "leaderboard") =>
        LET page == IF th[t].page < 1 THEN 1 ELSE th[t].page
            limit == IF th[t].limit < 1 THEN 45 ELSE th[t].limit
            total == Len(sortedUsers)
        IN /\ th[t].res.kind = "ok"
           /\ th[t].res.total = total
           /\ th[t].res.totalPages = PagesOf(total, page, limit)
           /\ Len(th[t].res.users) = LengthOf(total, page, limit)

\* C7: every SearchByPrefix call with a query of two or more characters
\* completes, whatever page and limit are.
C7_SearchNeverFails ==
    \A t \in Threads :
        (Finished(t, "search") /\ Len(th[t].query) >= 2) => th[t].res.kind = "ok"

LowerName(u) == userNames[u].UsernameLower
Matches(query) == {u \in Users : HasPrefix(LowerName(u), query)}
IDs(seq) == {seq[i].ID : i \in DOMAIN seq}

\* R is what the search collects for the query: all matches, or under the
\* cap the first ones in the order of the lower-case names
Collected(R, query) ==
    /\ R \subseteq Matches(query)
    /\ Cardinality(R) = Min(Cardinality(Matches(query)), searchCap)
    /\ \A u \in R, v \in Matches(query) \ R : LexLess(LowerName(u), LowerName(v))

\* C8: a search with a query of two or more characters collects exactly the
\* users whose lower-case name starts with the query (the first searchCap of
\* them in name order), a shorter query gives nothing, and the bucket and
\* the whole name index give the same users.
C8_PrefixSearchExact ==
    /\ \A t \in Threads : (Finished(t, "search") /\ th[t].res.kind = "ok") =>
          IF Len(th[t].query) < 2
          THEN th[t].res.users = <<>> /\ th[t].res.total = 0
          ELSE /\ th[t].res.total = Min(Cardinality(Matches(th[t].query)), searchCap)
               /\ (th[t].page = 1 /\ th[t].limit >= th[t].res.total) =>
                     /\ Len(th[t].res.users) = th[t].res.total
                     /\ Collected(IDs(th[t].res.users), th[t].query)
    /\ \A q \in SearchQueries :
          LET query == NormalQuery(q)
          IN (Len(query) >= 2 /\ query[1] \in DOMAIN firstCharBuckets) =>
                IDs(BucketResults(firstCharBuckets[query[1]], query)) = IDs(FullResults(query))

\* a search came back with a whole page of two or more matches
C8_Witness ==
    \E t \in Threads :
        /\ Finished(t, "search") /\ th[t].res.kind = "ok"
        /\ th[t].page = 1 /\ Len(th[t].res.users) >= 2
        /\ IDs(th[t].res.users) = Matches(th[t].query)

C10_SameAnswerFromCache ==
    \A t \in Threads : (Finished(t, "leaderboard") /\ th[t].res.cached) => th[t].res.same

\* the entry that answered the cached call of goroutine t
EntryOf(t) == cache[CacheKey(th[t].page, th[t].limit)]

\* C11: a call is answered from a cache entry only while the entry's age,
\* now - timestamp, is strictly below the TTL.
C11_ServedOnlyBelowTTL ==
    \A t \in Threads :
        (Finished(t, "leaderboard") /\ th[t].res.cached /\ th[t].res.kind = "ok") =>
            now - EntryOf(t).timestamp < cacheTTL

\* no call is under way and the rating index is clean
Quiescent ==
    /\ mu.writer = 0 /\ mu.readers = {}
    /\ ~needsSorting
    /\ \A t \in Threads : th[t].pc \in {"idle", "done"}

\* the pages p..n of page size k, one after the other
RECURSIVE ConcatPages(_, _, _)
ConcatPages(k, p, n) ==
    IF p > n THEN <<>> ELSE LbPage(p, k).users \o ConcatPages(k, p + 1, n)

\* the page sizes of the claim: some divide the number of users, some do not
PageSizes == 1..(NumUsers + 1)

C13_RatingsInRange ==
    \A u \in Users : usersByID[u].Rating >= 100 /\ usersByID[u].Rating <= 5000

\* a mutation has brought a user to the lower bound, another user is at the
\* upper bound
C13_Witness ==
    \E u \in updatedUsers, v \in Users :
        usersByID[u].Rating = 100 /\ usersByID[v].Rating = 5000

\* C14: a batch in which no attempt changed a rating (the clamped new rating
\* equals the current one every time) leaves ratings, ranks, needsSorting,
\* updateCount, the order of the rating index and the cache unchanged.
C14_NoopBatchChangesNothing ==
    [][\A t \in Threads :
          (th[t].pc = "idle" /\ th'[t].op = "update" /\ th'[t].res.total = 0) =>
              UNCHANGED <<usersByID, needsSorting, updateCount, sortedUsers, cache>>]_vars

\* a batch without effect has returned while the cache holds a page
C14_Witness ==
    \E t \in Threads :
        /\ Finished(t, "update") /\ th[t].res.total = 0
        /\ cache # EmptyCache /\ ~needsSorting

\* goroutine t holds mu.Lock() and has run sortUsersLocked up to its
\* clearCache: in a reader's upgrade, in a forced sort, or in a batch that
\* reached the threshold
Rebuilding(t) ==
    /\ mu.writer = t
    /\ \/ th[t].pc \in {"lb_clear", "su_clear", "fs_clear"}
       \/ th[t].pc = "urs_clear" /\ effective = 0

\* goroutine t has finished sortUsersLocked and is about to release mu
Releasing(t) ==
    /\ mu.writer = t
    /\ \/ th[t].pc \in {"lb_unlock", "su_unlock", "fs_unlock"}
       \/ th[t].pc = "urs_unlock" /\ effective = 0

\* C15: every rebuild, whoever triggers it, ends with updateCount 0,
\* needsSorting false and the cache emptied, all while it still holds mu;
\* it releases mu with updateCount 0 and needsSorting false.
C15_RebuildLeavesClean ==
    [][\A t \in Threads :
          /\ (Rebuilding(t) /\ th'[t].pc # th[t].pc) =>
                /\ mu'.writer = t
                /\ updateCount' = 0 /\ ~needsSorting' /\ cache' = EmptyCache
          /\ (Releasing(t) /\ mu'.writer # t) =>
                (updateCount' = 0 /\ ~needsSorting')]_vars

\* a reader has rebuilt a dirty index in its upgrade and released mu
C15_Witness ==
    \E t \in Threads :
        /\ th[t].pc \in {"lb_rlock2", "su_rlock2"}
        /\ mu.writer = 0 /\ updateCount = 0 /\ ~needsSorting /\ cache = EmptyCache

\* C16: whenever no goroutine holds mu.Lock(), updateCount is the number of
\* attempts that changed a rating since the last rebuild, and it is below
\* the threshold.
C16_PendingCountsEffectiveChanges ==
    mu.writer = 0 => (updateCount = effective /\ updateCount < sortThreshold)

\* one change is pending, and a batch that changed nothing has returned
\* since
C16_Witness ==
    /\ mu.writer = 0 /\ updateCount > 0 /\ updateCount = sortThreshold - 1
    /\ \E t \in Threads : Finished(t, "update") /\ th[t].res.total = 0

\* C17: a batch of mutations never rebuilds: it leaves the order of the
\* rating index and every rank as they were, and the pending count grows by
\* the number of ratings it changed, whatever that count becomes.
C17_MutateNeverRebuilds ==
    [][\A t \in Threads :
          (th[t].pc = "idle" /\ th'[t].op = "update") =>
              /\ sortedUsers' = sortedUsers
              /\ \A u \in Users : usersByID'[u].Rank = usersByID[u].Rank
              /\ updateCount' = updateCount + th'[t].res.total]_vars

\* C18: the rank that a rank lookup returns is the competition rank of the
\* user under the ratings committed before the call, also when the call
\* finds needsSorting true.
C18_LookupRankExact ==
    \A t \in Threads :
        (Finished(t, "rank") /\ th[t].res.kind = "ok") =>
            \A i \in DOMAIN th[t].res.users :
                /\ th[t].res.users[i].Rating = usersByID[th[t].res.users[i].ID].Rating
                /\ th[t].res.users[i].Rank = CompetitionRank(th[t].res.users[i].ID)

\* C19: no step of a prefix search changes needsSorting, updateCount, the
\* order of the rating index, a rank or the cache, also when the search
\* finds needsSorting true.
C19_SearchLeavesIndexAlone ==
    [][\A t \in Threads :
          ((th[t].op = "search" \/ th'[t].op = "search") /\ th'[t].pc # th[t].pc) =>
              UNCHANGED <<usersByID, sortedUsers, needsSorting, updateCount, cache>>]_vars

\* the competition rank of a rating among the current ratings
RankOfRating(r) == 1 + Cardinality({v \in Users : usersByID[v].Rating > r})

\* C20: a call that misses the cache copies its page while needsSorting is
\* false: the ratings of the page do not increase and every rank of the page
\* is the competition rank of its rating.
C20_PageCopiedFromCleanIndex ==
    [][\A t \in Threads :
          (th[t].pc \in {"lb_rlock", "lb_rlock2"} /\ th'[t].pc \in {"lb_put", "done"}) =>
              /\ ~needsSorting
              /\ \A i, j \in DOMAIN th'[t].res.users :
                    i < j => th'[t].res.users[i].Rating >= th'[t].res.users[j].Rating
              /\ \A i \in DOMAIN th'[t].res.users :
                    th'[t].res.users[i].Rank = RankOfRating(th'[t].res.users[i].Rating)]_vars

\* goroutine t answers a listing from the cache in this step: it reads
\* len(sortedUsers) and updateCount
HitStep(t) ==
    /\ th[t].pc = "idle" /\ th'[t].pc = "done"
    /\ th'[t].op = "leaderboard" /\ th'[t].res.cached

\* C21: the length of the rating index and the pending count are read only
\* under mu, shared or exclusive: no goroutine reads them in a step in which
\* another goroutine holds mu.Lock().
C21_GuardedReadsUnderLock ==
    [][\A t \in Threads : HitStep(t) => (mu.writer = 0 \/ mu.writer = t)]_vars

\* this step sorts the rating index or assigns ranks
RebuildStep ==
    \/ sortedUsers' # sortedUsers
    \/ \E u \in Users : usersByID'[u].Rank # usersByID[u].Rank
    \/ needsSorting /\ ~needsSorting'

\* C22: a rebuild runs only while its caller holds mu.Lock() and no other
\* goroutine holds mu, shared or exclusive: on the reader upgrades of
\* GetLeaderboard and SearchUsers, in a batch at the threshold and in a
\* forced sort.  (generateUsers rebuilds once, before any goroutine runs.)
C22_RebuildUnderExclusiveLock ==
    [][RebuildStep =>
          /\ mu.writer = 0 /\ mu.readers = {}
          /\ mu'.writer \in Threads /\ mu'.readers = {}
          /\ th'[mu'.writer].pc \in {"lb_clear", "su_clear", "fs_clear", "urs_clear"}]_vars

\* a goroutine rebuilds under mu.Lock() while the other one waits for mu
C22_Witness ==
    \E t, w \in Threads :
        /\ t # w /\ Rebuilding(t)
        /\ th[w].pc \in {"lb_rlock", "lb_lock", "su_lock", "lb_rlock2", "su_rlock2"}

\* no call is under way
NoCallInFlight ==
    /\ mu.writer = 0 /\ mu.readers = {}
    /\ \A t \in Threads : th[t].pc \in {"idle", "done"}

\* in this step goroutine t copies entities out of the store
CopyStep(t) ==
    /\ th[t].res.kind = "none" /\ th'[t].res.kind = "ok"
    /\ th'[t].op \in {"leaderboard", "search", "rank"}
    /\ ~th'[t].res.cached

\* the ranks are the competition ranks of the ratings of the last rebuild,
\* and the rating index is in the order of those ratings
RanksOfLastRebuild ==
    /\ \A u \in Users :
          usersByID[u].Rank =
              1 + Cardinality({v \in Users : rebuiltRating[v] > rebuiltRating[u]})
    /\ \A i, j \in Positions :
          i < j => rebuiltRating[sortedUsers[i]] >= rebuiltRating[sortedUsers[j]]

\* C23: with several goroutines mutating and reading, whenever no call is
\* under way the ranks form the competition ranking of the ratings of the
\* last rebuild; and a goroutine copies entities only in a step in which no
\* goroutine holds mu.Lock(), so never between the writes of a batch or of
\* a rebuild.
C23_ValidRanksNoTornCopy ==
    /\ [](NoCallInFlight => RanksOfLastRebuild)
    /\ [][\A t \in Threads : CopyStep(t) => mu.writer = 0]_vars

\* no call is under way, ratings have changed since the last rebuild, and
\* the ranks differ from user to user
C23_Witness ==
    /\ NoCallInFlight /\ needsSorting
    /\ \E u \in Users : usersByID[u].Rating # rebuiltRating[u]
    /\ \E u, v \in Users : usersByID[u].Rank < usersByID[v].Rank

\* a sequence of users in ascending order of lower-case name, none twice
SortedByLowerName(seq) ==
    \A i, j \in DOMAIN seq :
        i < j => LexLess(userNames[seq[i]].UsernameLower, userNames[seq[j]].UsernameLower)

\* the name index and the buckets are what the population built
NameIndexIntact ==
    /\ Range(sortedByName) = Users /\ Len(sortedByName) = Cardinality(Users)
    /\ SortedByLowerName(sortedByName)
    /\ \A c \in DOMAIN firstCharBuckets :
          /\ SortedByLowerName(firstCharBuckets[c])
          /\ Range(firstCharBuckets[c]) =
                {u \in Users : Len(userNames[u].Username) > 0 /\ userNames[u].Username[1] = c}
    /\ \A u \in Users :
          Len(userNames[u].Username) > 0 => userNames[u].Username[1] \in DOMAIN firstCharBuckets

\* C24: after the population no step changes the names, the name index or
\* the buckets; the name index and every bucket stay sorted by lower-case
\* name, and every bucket holds the users whose name starts with its byte.
C24_NameIndexImmutable ==
    /\ []NameIndexIntact
    /\ [][UNCHANGED <<userNames, sortedByName, firstCharBuckets>>]_vars

\* a batch has reached the threshold and rebuilt the rating index, whose
\* order is not the order of the name index
C24_Witness ==
    /\ lastCommitSorted /\ mu.writer = 0 /\ ~needsSorting
    /\ sortedUsers # sortedByName

\* C25: the order that a rebuild leaves is a function of the current
\* (rating, ID) pairs alone, whatever the mutations before: while the index
\* is clean, users are in descending order of rating and users of equal
\* rating in ascending order of ID, and every rank is the competition rank.
C25_OrderIndependentOfHistory ==
    ~needsSorting =>
        /\ \A i, j \in Positions :
              i < j =>
                 LET a == sortedUsers[i]
                     b == sortedUsers[j]
                 IN \/ usersByID[a].Rating > usersByID[b].Rating
                    \/ /\ usersByID[a].Rating = usersByID[b].Rating
                       /\ LexLess(UserID(a), UserID(b))
        /\ \A u \in Users : usersByID[u].Rank = CompetitionRank(u)

\* a reader has rebuilt an index in which mutations have made a tie
C25_Witness ==
    \E t \in Threads :
        /\ Rebuilding(t) /\ th[t].pc = "lb_clear"
        /\ \E u, v \in Users : u # v /\ usersByID[u].Rating = usersByID[v].Rating
        /\ \E u \in Users : usersByID[u].Rating \notin {InitialRating(n) : n \in MutIntn}

\* C26: a listing of a page beyond the last one, with a valid page and
\* limit, returns no user, the true total and the number of pages that a
\* valid page of that limit reports, ceil(total / limit).
C26_PageBeyondLast ==
    \A t \in Threads :
        (/\ Finished(t, "leaderboard")
         /\ th[t].page >= 1 /\ th[t].limit >= 1
         /\ (th[t].page - 1) * th[t].limit >= Len(sortedUsers)) =>
            /\ th[t].res.kind = "ok"
            /\ th[t].res.users = <<>>
            /\ th[t].res.total = Len(sortedUsers)
            /\ th[t].res.totalPages = LbPage(1, th[t].limit).totalPages

\* goroutine t holds one of the two mutexes
HoldsLock(t) ==
    \/ mu.writer = t \/ t \in mu.readers
    \/ cacheMutex.writer = t \/ t \in cacheMutex.readers

\* C27: a call that has ended, normally or by a panic, holds neither mu nor
\* cacheMutex, so that no goroutine waits for a mutex that is never released.
C27_EndedCallsHoldNoLock ==
    \A t \in Threads : th[t].pc \in {"idle", "done"} => ~HoldsLock(t)

\* C28: when a batch that changed a rating releases mu, the cache is empty,
\* whether the batch reached the threshold or not, so that no listing after
\* the batch is answered by a page cached before it.
C28_CacheEmptyAfterMutate ==
    [][\A t \in Threads :
          (th[t].pc = "urs_unlock" /\ mu.writer = t /\ mu'.writer # t) =>
              cache' = EmptyCache]_vars

\* C29: whenever no goroutine holds mu.Lock(), needsSorting is true exactly
\* when updateCount is above zero, and no user is marked as updated when
\* updateCount is zero.
C29_DirtyIffPending ==
    mu.writer = 0 =>
        /\ needsSorting <=> updateCount > 0
        /\ updateCount = 0 => updatedUsers = {}

\* a batch below the threshold is committed: the index is dirty, an update
\* is pending and its user is marked
C29_Witness ==
    /\ mu.writer = 0 /\ needsSorting /\ updateCount > 0
    /\ \E u \in updatedUsers : usersByID[u].Rating # rebuiltRating[u]

\* the list is in the order rating descending, then username ascending
SvcSorted(users) ==
    \A p \in 1..(Len(users) - 1) :
        \/ users[p].Rating > users[p + 1].Rating
        \/ /\ users[p].Rating = users[p + 1].Rating
           /\ LexLess(users[p].Username, users[p + 1].Username)

\* every rank is one more than the number of users with a higher rating
SvcCompetitionRanks(users) ==
    \A p \in DOMAIN users :
        users[p].Rank =
            1 + Cardinality({q \in DOMAIN users : users[q].Rating > users[p].Rating})

\* C30: whenever no goroutine holds the service's mu.Lock(), s.users is
\* sorted by rating descending then username ascending and every user's
\* rank is its competition rank.
C30_EagerRanksCurrent ==
    svc.mu.writer = 0 => SvcSorted(svc.users) /\ SvcCompetitionRanks(svc.users)

\* after an update cycle that raised a rating to the maximum: three users,
\* two of them tied ahead of or behind the third
C30_Witness ==
    /\ svc.mu.writer = 0 /\ svc.updateCount > 0 /\ Len(svc.users) = 3
    /\ \E p \in DOMAIN svc.users : svc.users[p].Rating = MaxRating
    /\ \E p \in 1..2 : svc.users[p].Rating = svc.users[p + 1].Rating
    /\ svc.users[3].Rank = 3

\* a search of the eager store that has responded
SvcSearched(t) == svcTh[t].pc = "done" /\ "results" \in DOMAIN svcTh[t].res

\* C31: SearchUsersHandler returns only users whose lower-case username has
\* the query as a prefix, each at most once, also after update cycles have
\* re-sorted the list.
C31_EagerSearchByPrefix ==
    \A t \in Threads :
        SvcSearched(t) =>
            LET res == svcTh[t].res
            IN /\ \A i \in DOMAIN res.results :
                     HasPrefix(ToLower(res.results[i].Username), res.query)
               /\ \A i, j \in DOMAIN res.results :
                     res.results[i].ID = res.results[j].ID => i = j

\* a page request of the eager store that has responded
SvcListed(t) == svcTh[t].pc = "done" /\ "start" \in DOMAIN svcTh[t].res

\* C32: GetLeaderboardHandler slices within bounds for every page, pageSize
\* and population: page ends in [1, totalPages], a pageSize outside
\* [1, 100] becomes 45, and the users returned are the positions
\* [start, end) with 0 <= start <= end <= total.
C32_EagerPageWithinBounds ==
    \A t \in Threads :
        SvcListed(t) =>
            LET res == svcTh[t].res
                asked == svcTh[t].pageSize
            IN /\ res.kind = "ok"
               /\ res.page \in 1..res.totalPages
               /\ res.pageSize = IF asked \in 1..svcMaxPageSize THEN asked
                                 ELSE svcDefaultPageSize
               /\ 0 <= res.start /\ res.start <= res.end /\ res.end <= res.total
               /\ Len(res.users) = res.end - res.start

\* the step in which goroutine t runs GetUserRank
LookupStep(t) == th[t].pc = "idle" /\ th'[t].pc = "done" /\ th'[t].op = "rank"

\* C33: GetUserRank changes no state; for a name that no user has it reports
\* not found, and for a user's name the tieCount it returns is the number of
\* users whose rating now equals the user's, which is at least 1.
C33_LookupTieCount ==
    [][\A t \in Threads :
          LookupStep(t) =>
              LET res == th'[t].res
                  named == {u \in Users : userNames[u].Username = th'[t].query}
              IN /\ UNCHANGED <<storeVars, nameVars, cache, mu, cacheMutex>>
                 /\ IF named = {} THEN res.kind = "notfound"
                    ELSE /\ res.kind = "ok"
                         /\ res.users[1].ID \in named
                         /\ res.users[1].Rating = usersByID[res.users[1].ID].Rating
                         /\ res.total >= 1
                         /\ res.total =
                               Cardinality({v \in Users : usersByID[v].Rating =
                                               usersByID[res.users[1].ID].Rating})]_vars

\* a lookup answered while an update is pending, for a user tied with another
C33_Witness ==
    \E t \in Threads :
        /\ Finished(t, "rank") /\ th[t].res.kind = "ok" /\ th[t].res.total = 2
        /\ needsSorting /\ effective > 0

\* the step in which socket s fires its close event
WsCloseStep(s) == wsEnv.sockets[s] # "CLOSED" /\ wsEnv'.sockets[s] = "CLOSED"

\* the step in which socket s fires its open event
WsOpenStep(s) == wsEnv.sockets[s] = "CONNECTING" /\ wsEnv'.sockets[s] = "OPEN"

\* C34: reconnectAttempts stays within [0, maxReconnectAttempts]; at the
\* maximum, attemptReconnect schedules no timer, creates no socket and
\* notifies the connection_change listeners of the failure; an open event
\* resets the counter to 0.
C34_ReconnectAttemptsBounded ==
    /\ [](ws.reconnectAttempts \in 0..maxReconnectAttempts)
    /\ [][\A s \in WsSockets :
             /\ (/\ WsCloseStep(s) /\ wsEnv'.code # 1000
                 /\ ws.reconnectAttempts = maxReconnectAttempts) =>
                    /\ wsEnv'.timers = wsEnv.timers
                    /\ wsEnv'.sockets = [wsEnv.sockets EXCEPT ![s] = "CLOSED"]
                    /\ ws'.reconnectAttempts = maxReconnectAttempts
                    /\ wsEnv'.notice = "max"
                    /\ wsEnv'.invoked = ws.listeners["connection_change"]
             /\ WsOpenStep(s) => ws'.reconnectAttempts = 0]_vars

\* the last attempt has failed: the listener was told, and nothing is
\* scheduled
C34_Witness ==
    /\ ws.reconnectAttempts = maxReconnectAttempts
    /\ wsEnv.notice = "max" /\ wsEnv.invoked = <<1>>
    /\ wsEnv.timers = 0
    /\ \A s \in WsSockets : wsEnv.sockets[s] = "CLOSED"

\* C35: after disconnect(), no WebSocket is created until connect() is
\* called again by the application, whatever reconnect timers were pending
\* when disconnect() was called.
C35_NoSocketAfterDisconnect ==
    [][(wsEnv.disconnected /\ wsEnv'.disconnected) =>
          Len(wsEnv'.sockets) = Len(wsEnv.sockets)]_vars

\* C36: while processMessageQueue runs after an open event, what was
\* transmitted since the event, followed by what is still queued, is the
\* queue as it was at the event: the queued messages go out in the order of
\* the send() calls, each once, and the loop leaves the queue empty.
C36_QueueFlushedInOrder ==
    wsEnv.pc = "pmq" => wsEnv.sent \o ws.messageQueue = wsEnv.batch

\* C37: processMessageQueue terminates: whenever its loop has started, it
\* ends, whatever the queue holds and whether the socket's send succeeds or
\* throws.
C37_ProcessMessageQueueEnds ==
    (wsEnv.pc = "pmq") ~> (wsEnv.pc = "idle")

\* C38: at most one socket that the service created is CONNECTING or OPEN,
\* and isConnected is true only while the service's current socket is OPEN.
C38_OneLiveSocket ==
    /\ Cardinality({s \in WsSockets : wsEnv.sockets[s] \in {"CONNECTING", "OPEN"}}) <= 1
    /\ ws.isConnected => WsIsOpen(ws, wsEnv)

\* the list without its i-th element
WsWithout(list, i) == SubSeq(list, 1, i - 1) \o SubSeq(list, i + 1, Len(list))

\* C39: a call of the function that on(type, cb) returned removes one
\* registration, that of cb under the type: the other registrations of the
\* type keep their places and their order, and the lists of the other
\* types stay as they are.
C39_UnsubscribeRemovesOne ==
    [][\A type \in DOMAIN ws.listeners :
          Len(ws'.listeners[type]) < Len(ws.listeners[type]) =>
              /\ \E i \in DOMAIN ws.listeners[type] :
                    ws'.listeners[type] = WsWithout(ws.listeners[type], i)
              /\ \A other \in DOMAIN ws.listeners \ {type} :
                    ws'.listeners[other] = ws.listeners[other]]_vars

\* how many page buttons with the number n were rendered
PgButtonsFor(n) ==
    Cardinality({i \in DOMAIN pg.pages : pg.pages[i].kind = "page" /\ pg.pages[i].n = n})

\* C40: for totalPages > 1 and currentPage in [1, totalPages], either control
\* renders a window [startPage, endPage] within [1, totalPages] that holds
\* currentPage and has min(5, totalPages) pages, and it renders page 1 and
\* page totalPages once each, in the window or as the first or last button.
C40_PageWindow ==
    (pg.by # "none" /\ pg.totalPages > 1 /\ pg.currentPage \in 1..pg.totalPages) =>
        /\ 1 <= pg.startPage /\ pg.endPage <= pg.totalPages
        /\ pg.currentPage \in pg.startPage..pg.endPage
        /\ pg.endPage - pg.startPage + 1 = MathMin(maxVisible, pg.totalPages)
        /\ \A n \in pg.startPage..pg.endPage : PgButtonsFor(n) = 1
        /\ PgButtonsFor(1) = 1
        /\ PgButtonsFor(pg.totalPages) = 1

\* the last of many pages: the window was moved back to five pages, and the
\* first page is a button of its own behind an ellipsis
C40_Witness ==
    /\ pg.by = "LeaderboardScreen" /\ pg.totalPages = MaxPages
    /\ pg.currentPage = pg.totalPages
    /\ pg.startPage = pg.totalPages - maxVisible + 1 /\ pg.endPage = pg.totalPages
    /\ Len(pg.pages) = maxVisible + 2
    /\ pg.pages[2].kind = "ellipsis"

=============================================================================
